---- MODULE Spec2Model ----
(***************************************************************************)
(* A model of the OneLake storage client                                   *)
(* (Workload/app/clients/OneLakeStorageClient.ts): the create/append/flush *)
(* write protocol, the read, exists and delete calls, and the text and     *)
(* base64 conversions they rely on; of the FileTree component of the       *)
(* OneLake item explorer and its controller; of two concurrent writers of  *)
(* one path; of the long running operations client; and of the sandbox     *)
(* relaxation service.  Each part has its own specification: Spec,         *)
(* FileTreeSpec, WritersSpec, PollSpec (PollFairSpec), ConsentSpec.        *)
(*                                                                         *)
(* A JavaScript string is a sequence of UTF-16 code units (naturals), a    *)
(* request or file body is a sequence of bytes (0..255).                   *)
(***************************************************************************)
EXTENDS Integers, Sequences, FiniteSets, Bags, TLC

(***************************************************************************)
(* Bounds of the model.                                                    *)
(***************************************************************************)
\* longest text content handed to writeFileAsText, in UTF-16 code units
MaxChars == 2
\* longest byte sequence handed (base64 encoded) to writeFileAsBase64
MaxBytes == 2

\* The code units text is drawn from: 'A' (1 byte in UTF-8), e-acute U+00E9
\* (2 bytes), U+FEFF (3 bytes, the byte order mark) and the high surrogate
\* U+D83D, which stands alone in every string built from this set.
TextUnits == {65, 233, 65279, 55357}

\* The bytes binary payloads are drawn from: 'h', and 0xC3 0xA9, which are
\* the UTF-8 encoding of U+00E9 when adjacent and ill-formed otherwise.
ByteVals == {104, 195, 169}

RECURSIVE SeqsUpTo(_, _)
SeqsUpTo(S, n) ==
    IF n = 0 THEN {<<>>}
    ELSE LET shorter == SeqsUpTo(S, n - 1)
         IN  shorter \cup {Append(s, x) : s \in shorter, x \in S}

(***************************************************************************)
(* UTF-8 encoding of a string, as fetch does for a string body and as      *)
(* TextEncoder does: a surrogate pair is one code point of 4 bytes, a lone *)
(* surrogate is replaced by U+FFFD.                                        *)
(***************************************************************************)
IsHighSurrogate(u) == u >= 55296 /\ u <= 56319
IsLowSurrogate(u) == u >= 56320 /\ u <= 57343

EncodeCodePoint(cp) ==
    IF cp < 128 THEN <<cp>>
    ELSE IF cp < 2048 THEN <<192 + (cp \div 64), 128 + (cp % 64)>>
    ELSE IF cp < 65536
         THEN <<224 + (cp \div 4096), 128 + ((cp \div 64) % 64), 128 + (cp % 64)>>
    ELSE <<240 + (cp \div 262144), 128 + ((cp \div 4096) % 64),
           128 + ((cp \div 64) % 64), 128 + (cp % 64)>>

RECURSIVE Utf8EncodeFrom(_, _)
Utf8EncodeFrom(s, i) ==
    IF i > Len(s) THEN <<>>
    ELSE IF IsHighSurrogate(s[i]) /\ i < Len(s) /\ IsLowSurrogate(s[i + 1])
         THEN EncodeCodePoint(65536 + (s[i] - 55296) * 1024 + (s[i + 1] - 56320))
                  \o Utf8EncodeFrom(s, i + 2)
    ELSE IF IsHighSurrogate(s[i]) \/ IsLowSurrogate(s[i])
         THEN EncodeCodePoint(65533) \o Utf8EncodeFrom(s, i + 1)
    ELSE EncodeCodePoint(s[i]) \o Utf8EncodeFrom(s, i + 1)

Utf8Encode(s) == Utf8EncodeFrom(s, 1)

(***************************************************************************)
(* Buffer.byteLength(content, "utf8"): the byte count is summed per code   *)
(* unit, without building the bytes.                                       *)
(***************************************************************************)
RECURSIVE ByteLengthFrom(_, _)
ByteLengthFrom(s, i) ==
    IF i > Len(s) THEN 0
    ELSE IF s[i] < 128 THEN 1 + ByteLengthFrom(s, i + 1)
    ELSE IF s[i] < 2048 THEN 2 + ByteLengthFrom(s, i + 1)
    ELSE IF IsHighSurrogate(s[i]) /\ i < Len(s) /\ IsLowSurrogate(s[i + 1])
         THEN 4 + ByteLengthFrom(s, i + 2)
    ELSE 3 + ByteLengthFrom(s, i + 1)

ByteLengthUtf8(s) == ByteLengthFrom(s, 1)

(***************************************************************************)
(* UTF-8 decoding with replacement (the decoder of response.text() and of  *)
(* Buffer.toString("utf8")): an ill-formed sequence yields U+FFFD for its  *)
(* maximal well-formed prefix and decoding resumes at the offending byte.  *)
(***************************************************************************)
Utf8Needed(b) ==
    IF b >= 194 /\ b <= 223 THEN 1
    ELSE IF b >= 224 /\ b <= 239 THEN 2
    ELSE IF b >= 240 /\ b <= 244 THEN 3
    ELSE 0

\* the range the first continuation byte after lead byte b must lie in
Utf8Lower(b) == IF b = 224 THEN 160 ELSE IF b = 240 THEN 144 ELSE 128
Utf8Upper(b) == IF b = 237 THEN 159 ELSE IF b = 244 THEN 143 ELSE 191

\* how many of the continuation bytes of the sequence led by bytes[i] are there
RECURSIVE Utf8ContCount(_, _, _)
Utf8ContCount(bytes, i, k) ==
    IF k > Utf8Needed(bytes[i]) \/ i + k > Len(bytes) THEN k - 1
    ELSE LET c == bytes[i + k]
             lo == IF k = 1 THEN Utf8Lower(bytes[i]) ELSE 128
             hi == IF k = 1 THEN Utf8Upper(bytes[i]) ELSE 191
         IN  IF c >= lo /\ c <= hi THEN Utf8ContCount(bytes, i, k + 1) ELSE k - 1

Utf8CodePoint(bytes, i) ==
    LET n == Utf8Needed(bytes[i])
        lead == IF n = 1 THEN bytes[i] - 192
                ELSE IF n = 2 THEN bytes[i] - 224
                ELSE bytes[i] - 240
    IN  IF n = 1 THEN lead * 64 + (bytes[i + 1] - 128)
        ELSE IF n = 2 THEN lead * 4096 + (bytes[i + 1] - 128) * 64 + (bytes[i + 2] - 128)
        ELSE lead * 262144 + (bytes[i + 1] - 128) * 4096
                 + (bytes[i + 2] - 128) * 64 + (bytes[i + 3] - 128)

CodeUnits(cp) ==
    IF cp < 65536 THEN <<cp>>
    ELSE <<55296 + ((cp - 65536) \div 1024), 56320 + ((cp - 65536) % 1024)>>

RECURSIVE Utf8DecodeFrom(_, _)
Utf8DecodeFrom(bytes, i) ==
    IF i > Len(bytes) THEN <<>>
    ELSE IF bytes[i] < 128 THEN <<bytes[i]>> \o Utf8DecodeFrom(bytes, i + 1)
    ELSE IF Utf8Needed(bytes[i]) = 0 THEN <<65533>> \o Utf8DecodeFrom(bytes, i + 1)
    ELSE LET got == Utf8ContCount(bytes, i, 1)
         IN  IF got = Utf8Needed(bytes[i])
             THEN CodeUnits(Utf8CodePoint(bytes, i)) \o Utf8DecodeFrom(bytes, i + got + 1)
             ELSE <<65533>> \o Utf8DecodeFrom(bytes, i + got + 1)

\* Buffer.toString("utf8"): decodes, keeps a leading byte order mark
BufferToStringUtf8(bytes) == Utf8DecodeFrom(bytes, 1)

\* response.text(): "UTF-8 decode" of the body, which drops a leading
\* byte order mark (EF BB BF) before decoding
ResponseText(bytes) ==
    IF Len(bytes) >= 3 /\ bytes[1] = 239 /\ bytes[2] = 187 /\ bytes[3] = 191
    THEN Utf8DecodeFrom(bytes, 4)
    ELSE Utf8DecodeFrom(bytes, 1)

(***************************************************************************)
(* base64                                                                  *)
(***************************************************************************)
\* the character of a 6-bit value: A-Z, a-z, 0-9, '+', '/'
B64Char(v) ==
    IF v < 26 THEN 65 + v
    ELSE IF v < 52 THEN 97 + (v - 26)
    ELSE IF v < 62 THEN 48 + (v - 52)
    ELSE IF v = 62 THEN 43
    ELSE 47

\* the 6-bit value of a character of the base64 alphabet, -1 for any other
B64Val(c) ==
    IF c >= 65 /\ c <= 90 THEN c - 65
    ELSE IF c >= 97 /\ c <= 122 THEN c - 97 + 26
    ELSE IF c >= 48 /\ c <= 57 THEN c - 48 + 52
    ELSE IF c = 43 THEN 62
    ELSE IF c = 47 THEN 63
    ELSE -1

\* the encoding a caller produces for a byte sequence (btoa), with padding
RECURSIVE Base64EncodeFrom(_, _)
Base64EncodeFrom(bytes, i) ==
    IF i > Len(bytes) THEN <<>>
    ELSE IF i = Len(bytes)
         THEN <<B64Char(bytes[i] \div 4), B64Char((bytes[i] % 4) * 16), 61, 61>>
    ELSE IF i + 1 = Len(bytes)
         THEN <<B64Char(bytes[i] \div 4),
                B64Char((bytes[i] % 4) * 16 + (bytes[i + 1] \div 16)),
                B64Char((bytes[i + 1] % 16) * 4), 61>>
    ELSE <<B64Char(bytes[i] \div 4),
           B64Char((bytes[i] % 4) * 16 + (bytes[i + 1] \div 16)),
           B64Char((bytes[i + 1] % 16) * 4 + (bytes[i + 2] \div 64)),
           B64Char(bytes[i + 2] % 64)>> \o Base64EncodeFrom(bytes, i + 3)

Base64Encode(bytes) == Base64EncodeFrom(bytes, 1)

\* the bytes of a sequence of 6-bit values: 4 values give 3 bytes, a last
\* group of 3 gives 2 bytes, of 2 gives 1 byte, of 1 gives none
RECURSIVE SextetsToBytes(_, _)
SextetsToBytes(v, i) ==
    IF i + 1 > Len(v) THEN <<>>
    ELSE IF i + 1 = Len(v) THEN <<v[i] * 4 + (v[i + 1] \div 16)>>
    ELSE IF i + 2 = Len(v)
         THEN <<v[i] * 4 + (v[i + 1] \div 16), (v[i + 1] % 16) * 16 + (v[i + 2] \div 4)>>
    ELSE <<v[i] * 4 + (v[i + 1] \div 16),
           (v[i + 1] % 16) * 16 + (v[i + 2] \div 4),
           (v[i + 2] % 4) * 64 + v[i + 3]>> \o SextetsToBytes(v, i + 4)

IsAsciiWhitespace(c) == c \in {9, 10, 12, 13, 32}

\* atob(): the forgiving base64 decode. Whitespace is removed; when the
\* length is a multiple of 4 one or two trailing '=' are removed; a length
\* of 1 modulo 4 or any character outside the alphabet makes it throw.
Atob(s) ==
    LET t == SelectSeq(s, LAMBDA c : ~IsAsciiWhitespace(c))
        n == Len(t)
        cut == IF n > 0 /\ n % 4 = 0
               THEN IF t[n] = 61 /\ t[n - 1] = 61 THEN 2
                    ELSE IF t[n] = 61 THEN 1
                    ELSE 0
               ELSE 0
        d == SubSeq(t, 1, n - cut)
    IN  IF Len(d) % 4 = 1 \/ \E k \in 1..Len(d) : B64Val(d[k]) = -1
        THEN [ok |-> FALSE, bytes |-> <<>>]
        ELSE [ok |-> TRUE, bytes |-> SextetsToBytes([k \in 1..Len(d) |-> B64Val(d[k])], 1)]

\* Buffer.from(s, "base64"): the lenient decode. The input ends at the first
\* '=', characters outside the alphabet are skipped and nothing throws.
\* '-' and '_' stand for '+' and '/'.
B64ValLenient(c) == IF c = 45 THEN 62 ELSE IF c = 95 THEN 63 ELSE B64Val(c)

BufferFromBase64(s) ==
    LET pads == {k \in 1..Len(s) : s[k] = 61}
        upto == IF pads = {} THEN Len(s)
                ELSE (CHOOSE k \in pads : \A j \in pads : k <= j) - 1
        d == SelectSeq(SubSeq(s, 1, upto), LAMBDA c : B64ValLenient(c) # -1)
    IN  SextetsToBytes([k \in 1..Len(d) |-> B64ValLenient(d[k])], 1)

(***************************************************************************)
(* State.                                                                  *)
(***************************************************************************)
VARIABLES
    file,       \* the path at the DFS endpoint: exists, committed bytes, appended bytes not yet flushed
    op,         \* the client method being run, "none" before the first call
    content,    \* its content argument (a string; empty for the calls that take none)
    original,   \* for writeFileAsBase64: the bytes the caller encoded into content
    pc,         \* where the method stands: idle, token, begin, append, flush, done
    token,      \* what getAccessToken gave this call: none, ok, failed
    reqs,       \* the requests this call has issued, in order, each with its response status
    result,     \* how the call ended for its caller: pending, returned (with a value), threw
    hadContent, \* whether the file held committed bytes when the call started
    lastWrite,  \* the last write call, if all its requests succeeded and no write or delete started since
    \* the FileTree component of the OneLake item explorer
    allFilesInItem,     \* props.allFilesInItem: the top-level listing, a sequence of FileMetadata
    expandedShortcuts,  \* useState Set: the shortcut paths whose contents were loaded
    shortcutContents,   \* useState Map: shortcut path -> loaded FileMetadata list, in insertion order
    loadingShortcuts,   \* useState Set: the shortcut paths shown as "Loading..."
    inFlight,           \* the loadShortcutContents calls awaiting their list call, oldest first
    listCalls,          \* the list calls issued since the component was mounted
    event,              \* the handler that ran last and how it ended
    \* two callers of writeFileAsText on the same path
    writers,    \* for each writer: its content, where its call stands, its requests, how it ended
    \* a call of the long running operations client
    lro,        \* the call: its arguments, the clock, the queries it issued, how it ended
    \* the sandbox relaxation service
    consent     \* the instance: consentedScopes, isInitialized, and the last call with its result

storageVars == <<file, op, content, original, pc, token, reqs, result, hadContent, lastWrite>>
treeVars == <<allFilesInItem, expandedShortcuts, shortcutContents, loadingShortcuts,
              inFlight, listCalls, event>>
laterVars == <<writers, lro, consent>>
vars == <<storageVars, treeVars, laterVars>>

WriteOps == {"writeFileAsText", "writeFileAsBase64"}
ReadOps == {"readFileAsText", "readFileAsBase64"}

NoFile == [exists |-> FALSE, committed |-> <<>>, staged |-> <<>>]
NoWrite == [op |-> "none", content |-> <<>>, original |-> <<>>, overwrote |-> FALSE]

Pending == [kind |-> "pending", text |-> <<>>, flag |-> FALSE]
Returned == [kind |-> "returned", text |-> <<>>, flag |-> FALSE]
ReturnedText(t) == [kind |-> "returned", text |-> t, flag |-> FALSE]
ReturnedFlag(b) == [kind |-> "returned", text |-> <<>>, flag |-> b]
Threw == [kind |-> "threw", text |-> <<>>, flag |-> FALSE]

(***************************************************************************)
(* The requests of section 6 of the specification (wire protocol).         *)
(***************************************************************************)
CreateRequest == [method |-> "PUT", query |-> "resource=file", position |-> -1, body |-> <<>>]
ReadRequest == [method |-> "GET", query |-> "", position |-> -1, body |-> <<>>]
HeadRequest == [method |-> "HEAD", query |-> "resource=file", position |-> -1, body |-> <<>>]
DeleteRequest == [method |-> "DELETE", query |-> "recursive=true", position |-> -1, body |-> <<>>]

\* a variant that appends at the length of the body
AppendRequestAtLength(body) ==
    [method |-> "PATCH", query |-> "action=append", position |-> Len(body), body |-> body]

\* buildAppendQueryParameters: "position=0&action=append"
AppendRequest(body) ==
    [method |-> "PATCH", query |-> "action=append", position |-> 0, body |-> body]

\* buildFlushQueryParameters: `position=${contentLength}&action=flush`
FlushRequest(contentLength) ==
    [method |-> "PATCH", query |-> "action=flush", position |-> contentLength, body |-> <<>>]

(***************************************************************************)
(* The DFS endpoint, for one path. A create replaces the file by an empty  *)
(* one; an append stages bytes at the end of the file; a flush commits the *)
(* staged bytes when its position is the length the file then has.         *)
(***************************************************************************)
FileLength(f) == Len(f.committed) + Len(f.staged)

Serve(req, f) ==
    IF req.method = "PUT"
    THEN [status |-> 201, file |-> [exists |-> TRUE, committed |-> <<>>, staged |-> <<>>],
          body |-> <<>>]
    ELSE IF ~f.exists THEN [status |-> 404, file |-> f, body |-> <<>>]
    ELSE IF req.method = "GET" THEN [status |-> 200, file |-> f, body |-> f.committed]
    ELSE IF req.method = "HEAD" THEN [status |-> 200, file |-> f, body |-> <<>>]
    ELSE IF req.method = "DELETE" THEN [status |-> 200, file |-> NoFile, body |-> <<>>]
    ELSE IF req.query = "action=append"
         THEN IF req.position = FileLength(f)
              THEN [status |-> 202, file |-> [f EXCEPT !.staged = @ \o req.body],
                    body |-> <<>>]
              ELSE [status |-> 400, file |-> f, body |-> <<>>]
    ELSE IF req.position = FileLength(f)
         THEN [status |-> 200,
               file |-> [f EXCEPT !.committed = @ \o f.staged, !.staged = <<>>],
               body |-> <<>>]
         ELSE [status |-> 400, file |-> f, body |-> <<>>]

\* What a request that does not reach the endpoint's handler can end with:
\* 0 stands for a transport failure (fetch rejects), 500 for a server error,
\* and a HEAD may also be answered 204. None changes the file.
FaultStatuses(req) == IF req.method = "HEAD" THEN {0, 204, 500} ELSE {0, 500}

\* fetch(url, init): the possible responses to a request
Fetch(req, f) ==
    {Serve(req, f)} \cup {[status |-> s, file |-> f, body |-> <<>>] : s \in FaultStatuses(req)}

\* response.ok; a rejected fetch (status 0) takes the same catch path as a throw on !response.ok
ResponseOk(status) == status >= 200 /\ status <= 299

Sent(req, status) ==
    [method |-> req.method, query |-> req.query, position |-> req.position,
     body |-> req.body, status |-> status]

(***************************************************************************)
(* Inputs.                                                                 *)
(***************************************************************************)
Texts == SeqsUpTo(TextUnits, MaxChars)
Payloads == SeqsUpTo(ByteVals, MaxBytes)
\* a string that is not base64: one character, 'a'
Malformed == <<97>>

\* the storage client before its first call
StorageInit ==
    /\ file = NoFile
    /\ op = "none"
    /\ content = <<>>
    /\ original = <<>>
    /\ pc = "idle"
    /\ token = "none"
    /\ reqs = <<>>
    /\ result = Pending
    /\ hadContent = FALSE
    /\ lastWrite = NoWrite

\* no event yet: nothing was clicked, nothing completed
NoEvent == [kind |-> "none", path |-> <<>>, outcome |-> "none", contents |-> <<>>]

\* no FileTree is mounted: the storage client is exercised on its own
FileTreeUnmounted ==
    /\ allFilesInItem = <<>>
    /\ expandedShortcuts = {}
    /\ shortcutContents = <<>>
    /\ loadingShortcuts = {}
    /\ inFlight = <<>>
    /\ listCalls = <<>>
    /\ event = NoEvent

\* the callers that write the same path
Writers == {1, 2}

\* a writer that has not called writeFileAsText yet
NoWriter ==
    [pc |-> "idle", content |-> <<>>, reqs |-> <<>>, result |-> Pending,
     overlapped |-> FALSE, committedAtEnd |-> <<>>]

\* what a call of the long running operations client has not ended with yet
NoOutcome == [kind |-> "pending", status |-> "none"]

\* no call of the long running operations client was made
NoPoll ==
    [method |-> "none", pc |-> "idle", timeoutMs |-> 0, pollingIntervalMs |-> 0,
     elapsed |-> 0, operation |-> "NotStarted", queries |-> <<>>, resultRequests |-> 0,
     outcome |-> NoOutcome]

\* no method of the sandbox relaxation service was called
NoCall == [op |-> "none", scopes |-> {}, mode |-> "none", returned |-> <<>>]

\* new SandboxRelaxationService(): consentedScopes = {}, isInitialized = false
NewService == [consentedScopes |-> {}, isInitialized |-> FALSE, last |-> NoCall]

\* nobody writes concurrently, polls an operation or asks for consent
OthersIdle ==
    /\ writers = [w \in Writers |-> NoWriter]
    /\ lro = NoPoll
    /\ consent = NewService

Init == StorageInit /\ FileTreeUnmounted /\ OthersIdle

\* A caller invokes a method of the client; one call runs at a time.
Invoke(o, c, b) ==
    /\ pc \in {"idle", "done"}
    /\ op' = o
    /\ content' = c
    /\ original' = b
    /\ pc' = "token"
    /\ token' = "none"
    /\ reqs' = <<>>
    /\ result' = Pending
    /\ hadContent' = (Len(file.committed) > 0)
    /\ lastWrite' = IF o \in WriteOps \cup {"deleteFile"} THEN NoWrite ELSE lastWrite
    /\ UNCHANGED <<file, treeVars, laterVars>>

Call ==
    \/ \E c \in Texts : Invoke("writeFileAsText", c, <<>>)
    \/ \E b \in Payloads : Invoke("writeFileAsBase64", Base64Encode(b), b)
    \/ Invoke("writeFileAsBase64", Malformed, <<>>)
    \/ \E o \in ReadOps \cup {"checkIfFileExists", "deleteFile"} : Invoke(o, <<>>, <<>>)

\* this.getAccessToken(): resolves with a token or rejects
GetAccessToken ==
    /\ pc = "token"
    /\ \E t \in {"ok", "failed"} : token' = t
    /\ pc' = "begin"
    /\ UNCHANGED <<file, op, content, original, reqs, result, hadContent, lastWrite, treeVars, laterVars>>

\* the call ends for its caller with r
Finish(r) ==
    /\ pc' = "done"
    /\ result' = r

\* what a write that has ended leaves in lastWrite: itself when the call
\* returned and every request it issued (the last was st) was answered 2xx
WriteEnded(r, st) ==
    lastWrite' = IF r.kind = "returned" /\ ResponseOk(st)
                 THEN [op |-> op, content |-> content, original |-> original,
                       overwrote |-> hadContent]
                 ELSE NoWrite

(***************************************************************************)
(* writeFileAsText and appendToFile.                                       *)
(***************************************************************************)
\* a variant that leaves the check of response.ok out: only a rejected fetch fails
CreateResponseUnchecked(status) == status # 0

\* `if (!response.ok) throw` after the create request of either write
CreateResponseOk(status) == ResponseOk(status)

\* variants: the append and flush run for every content; only for more than one character
ContentPresentAlways(c) == TRUE
ContentPresentMoreThanOne(c) == Len(c) > 1

\* a variant that never runs the append and flush
ContentPresentNever(c) == FALSE

\* `if (content && content.length > 0)`: whether the append and flush run
ContentPresent(c) == Len(c) > 0

\* the catch around the create request of writeFileAsText: logs, then `return`
WriteFileAsTextCreateCatch == Returned

\* the catch around the create request of writeFileAsBase64: logs, then `throw ex`
WriteFileAsBase64CreateCatch == Threw

\* contentLength of appendToFile: Buffer.byteLength(content, "utf8")
TextContentLength(c) == ByteLengthUtf8(c)

\* a variant that takes the length of the base64 string
BinaryContentLengthOfString(base64Content, bytes) == Len(base64Content)

\* contentLength of appendBinaryToFile: bytes.length
BinaryContentLength(base64Content, bytes) == Len(bytes)

\* The create step of writeFileAsText. getAccessToken is awaited outside the
\* try, so its rejection leaves the method.
WriteFileAsText ==
    /\ op = "writeFileAsText" /\ pc = "begin"
    /\ IF token = "failed"
       THEN /\ Finish(Threw)
            /\ WriteEnded(Threw, 0)
            /\ UNCHANGED <<file, reqs>>
       ELSE \E r \in Fetch(CreateRequest, file) :
                /\ file' = r.file
                /\ reqs' = Append(reqs, Sent(CreateRequest, r.status))
                /\ IF ~CreateResponseOk(r.status)
                   THEN /\ Finish(WriteFileAsTextCreateCatch)
                        /\ WriteEnded(WriteFileAsTextCreateCatch, r.status)
                   ELSE IF ContentPresent(content)
                        THEN /\ pc' = "append"
                             /\ UNCHANGED <<result, lastWrite>>
                        ELSE /\ Finish(Returned)
                             /\ WriteEnded(Returned, r.status)
    /\ UNCHANGED <<op, content, original, token, hadContent, treeVars, laterVars>>

\* appendToFile, the append request: the body is the string content
AppendToFileAppend ==
    /\ op = "writeFileAsText" /\ pc = "append"
    /\ \E r \in Fetch(AppendRequest(Utf8Encode(content)), file) :
           /\ file' = r.file
           /\ reqs' = Append(reqs, Sent(AppendRequest(Utf8Encode(content)), r.status))
           /\ IF ResponseOk(r.status)
              THEN /\ pc' = "flush"
                   /\ UNCHANGED <<result, lastWrite>>
              ELSE /\ Finish(Threw)
                   /\ WriteEnded(Threw, r.status)
    /\ UNCHANGED <<op, content, original, token, hadContent, treeVars, laterVars>>

\* a variant of the flush step that rolls back: when the flush fails it
\* deletes the file before it throws
AppendToFileFlushRollback ==
    /\ op = "writeFileAsText" /\ pc = "flush"
    /\ \E r \in Fetch(FlushRequest(TextContentLength(content)), file) :
           IF ResponseOk(r.status)
           THEN /\ file' = r.file
                /\ reqs' = Append(reqs, Sent(FlushRequest(TextContentLength(content)), r.status))
                /\ Finish(Returned)
                /\ WriteEnded(Returned, r.status)
           ELSE /\ file' = Serve(DeleteRequest, r.file).file
                /\ reqs' = reqs \o <<Sent(FlushRequest(TextContentLength(content)), r.status),
                                     Sent(DeleteRequest, Serve(DeleteRequest, r.file).status)>>
                /\ Finish(Threw)
                /\ WriteEnded(Threw, r.status)
    /\ UNCHANGED <<op, content, original, token, hadContent, treeVars, laterVars>>

\* appendToFile, the flush request
AppendToFileFlush ==
    /\ op = "writeFileAsText" /\ pc = "flush"
    /\ \E r \in Fetch(FlushRequest(TextContentLength(content)), file) :
           /\ file' = r.file
           /\ reqs' = Append(reqs, Sent(FlushRequest(TextContentLength(content)), r.status))
           /\ IF ResponseOk(r.status)
              THEN /\ Finish(Returned)
                   /\ WriteEnded(Returned, r.status)
              ELSE /\ Finish(Threw)
                   /\ WriteEnded(Threw, r.status)
    /\ UNCHANGED <<op, content, original, token, hadContent, treeVars, laterVars>>

(***************************************************************************)
(* writeFileAsBase64 and appendBinaryToFile.                               *)
(***************************************************************************)
WriteFileAsBase64 ==
    /\ op = "writeFileAsBase64" /\ pc = "begin"
    /\ IF token = "failed"
       THEN /\ Finish(Threw)
            /\ WriteEnded(Threw, 0)
            /\ UNCHANGED <<file, reqs>>
       ELSE \E r \in Fetch(CreateRequest, file) :
                /\ file' = r.file
                /\ reqs' = Append(reqs, Sent(CreateRequest, r.status))
                /\ IF ~CreateResponseOk(r.status)
                   THEN /\ Finish(WriteFileAsBase64CreateCatch)
                        /\ WriteEnded(WriteFileAsBase64CreateCatch, r.status)
                   ELSE IF ContentPresent(content)
                        THEN /\ pc' = "append"
                             /\ UNCHANGED <<result, lastWrite>>
                        ELSE /\ Finish(Returned)
                             /\ WriteEnded(Returned, r.status)
    /\ UNCHANGED <<op, content, original, token, hadContent, treeVars, laterVars>>

\* appendBinaryToFile, up to the append request: atob inside the try, then
\* the decoded bytes as the body
AppendBinaryToFileAppend ==
    /\ op = "writeFileAsBase64" /\ pc = "append"
    /\ IF ~Atob(content).ok
       THEN /\ Finish(Threw)
            /\ WriteEnded(Threw, 0)
            /\ UNCHANGED <<file, reqs>>
       ELSE \E r \in Fetch(AppendRequest(Atob(content).bytes), file) :
                /\ file' = r.file
                /\ reqs' = Append(reqs, Sent(AppendRequest(Atob(content).bytes), r.status))
                /\ IF ResponseOk(r.status)
                   THEN /\ pc' = "flush"
                        /\ UNCHANGED <<result, lastWrite>>
                   ELSE /\ Finish(Threw)
                        /\ WriteEnded(Threw, r.status)
    /\ UNCHANGED <<op, content, original, token, hadContent, treeVars, laterVars>>

\* appendBinaryToFile, the flush request
AppendBinaryToFileFlush ==
    /\ op = "writeFileAsBase64" /\ pc = "flush"
    /\ LET flush == FlushRequest(BinaryContentLength(content, Atob(content).bytes))
       IN  \E r \in Fetch(flush, file) :
               /\ file' = r.file
               /\ reqs' = Append(reqs, Sent(flush, r.status))
               /\ IF ResponseOk(r.status)
                  THEN /\ Finish(Returned)
                       /\ WriteEnded(Returned, r.status)
                  ELSE /\ Finish(Threw)
                       /\ WriteEnded(Threw, r.status)
    /\ UNCHANGED <<op, content, original, token, hadContent, treeVars, laterVars>>

(***************************************************************************)
(* readFileAsText, readFileAsBase64, checkIfFileExists, deleteFile: the    *)
(* token is awaited inside the try, every failure takes the catch.         *)
(***************************************************************************)
\* the catch of readFileAsText and of readFileAsBase64: `return ""`
ReadCatch == ReturnedText(<<>>)

\* what readFileAsText returns for a 2xx response: `await response.text()`
ReadFileAsTextValue(body) == ResponseText(body)

\* what readFileAsBase64 returns for a 2xx response:
\* Buffer.from(content, "base64").toString("utf8"), content the response text
ReadFileAsBase64Value(body) == BufferToStringUtf8(BufferFromBase64(ResponseText(body)))

ReadFileAsText ==
    /\ op = "readFileAsText" /\ pc = "begin"
    /\ IF token = "failed"
       THEN Finish(ReadCatch) /\ UNCHANGED reqs
       ELSE \E r \in Fetch(ReadRequest, file) :
                /\ reqs' = Append(reqs, Sent(ReadRequest, r.status))
                /\ IF ResponseOk(r.status)
                   THEN Finish(ReturnedText(ReadFileAsTextValue(r.body)))
                   ELSE Finish(ReadCatch)
    /\ UNCHANGED <<file, op, content, original, token, hadContent, lastWrite, treeVars, laterVars>>

ReadFileAsBase64 ==
    /\ op = "readFileAsBase64" /\ pc = "begin"
    /\ IF token = "failed"
       THEN Finish(ReadCatch) /\ UNCHANGED reqs
       ELSE \E r \in Fetch(ReadRequest, file) :
                /\ reqs' = Append(reqs, Sent(ReadRequest, r.status))
                /\ IF ResponseOk(r.status)
                   THEN Finish(ReturnedText(ReadFileAsBase64Value(r.body)))
                   ELSE Finish(ReadCatch)
    /\ UNCHANGED <<file, op, content, original, token, hadContent, lastWrite, treeVars, laterVars>>

\* a variant that takes every 2xx status for true
ExistsFromOk(status) == ResponseOk(status)

\* `response.status === 200` gives true; 404 and every other status give false
ExistsFromStatus(status) == status = 200

\* the catch of checkIfFileExists: `return false`
CheckIfFileExistsCatch == ReturnedFlag(FALSE)

CheckIfFileExists ==
    /\ op = "checkIfFileExists" /\ pc = "begin"
    /\ IF token = "failed"
       THEN Finish(CheckIfFileExistsCatch) /\ UNCHANGED reqs
       ELSE \E r \in Fetch(HeadRequest, file) :
                /\ reqs' = Append(reqs, Sent(HeadRequest, r.status))
                /\ IF r.status = 0
                   THEN Finish(CheckIfFileExistsCatch)
                   ELSE Finish(ReturnedFlag(ExistsFromStatus(r.status)))
    /\ UNCHANGED <<file, op, content, original, token, hadContent, lastWrite, treeVars, laterVars>>

\* a variant whose catch throws again
DeleteFileCatchRethrow == Threw

\* the catch of deleteFile: logs and falls out of the method
DeleteFileCatch == Returned

DeleteFile ==
    /\ op = "deleteFile" /\ pc = "begin"
    /\ IF token = "failed"
       THEN Finish(DeleteFileCatch) /\ UNCHANGED <<file, reqs>>
       ELSE \E r \in Fetch(DeleteRequest, file) :
                /\ file' = r.file
                /\ reqs' = Append(reqs, Sent(DeleteRequest, r.status))
                /\ IF ResponseOk(r.status)
                   THEN Finish(Returned)
                   ELSE Finish(DeleteFileCatch)
    /\ UNCHANGED <<op, content, original, token, hadContent, lastWrite, treeVars, laterVars>>

Next ==
    \/ Call
    \/ GetAccessToken
    \/ WriteFileAsText
    \/ AppendToFileAppend
    \/ AppendToFileFlush
    \/ WriteFileAsBase64
    \/ AppendBinaryToFileAppend
    \/ AppendBinaryToFileFlush
    \/ ReadFileAsText
    \/ ReadFileAsBase64
    \/ CheckIfFileExists
    \/ DeleteFile

Spec == Init /\ [][Next]_vars

(***************************************************************************)
(* Properties of the storage client.                                       *)
(***************************************************************************)
Done == pc = "done"
IsWrite == op \in WriteOps
Answered2xx(i) == ResponseOk(reqs[i].status)
IsCreate(r) == r.method = "PUT" /\ r.query = "resource=file" /\ r.body = <<>>
IsAppend(r) == r.method = "PATCH" /\ r.query = "action=append"
IsFlush(r) == r.method = "PATCH" /\ r.query = "action=flush"
IsDelete(r) == r.method = "DELETE" /\ r.query = "recursive=true"

\* the bytes a write is to store: the UTF-8 encoding of the text, or the
\* bytes the caller encoded as base64
WholeBytes == IF op = "writeFileAsText" THEN Utf8Encode(content) ELSE original

\* C1: a write of which some request (create, append or flush) failed ends
\* with an error delivered to its caller.
C1_FailedPhaseRaises ==
    (IsWrite /\ Done /\ \E i \in 1..Len(reqs) : ~Answered2xx(i))
        => result.kind = "threw"

\* C2: when the create request of a write fails, the call is over and the
\* create is the only request it has issued: no append, no flush.
C2_CreateFailureAborts ==
    (IsWrite /\ Len(reqs) >= 1 /\ ~Answered2xx(1))
        => (Done /\ Len(reqs) = 1 /\ IsCreate(reqs[1]))

C2_Witness ==
    /\ op = "writeFileAsBase64" /\ Done
    /\ Len(original) = MaxBytes
    /\ Len(reqs) = 1 /\ reqs[1].status = 500
    /\ hadContent

\* C3: a write with empty content never issues an append or a flush and
\* never more than one create; once it has ended it has issued exactly one
\* create (none when no access token was obtained, the call then fails
\* before any request).
C3_EmptyWriteOnlyCreates ==
    (IsWrite /\ content = <<>>)
        => /\ Len(reqs) <= 1
           /\ \A i \in 1..Len(reqs) : IsCreate(reqs[i])
           /\ Done => Len(reqs) = (IF token = "ok" THEN 1 ELSE 0)

C3_Witness ==
    /\ op = "writeFileAsBase64" /\ content = <<>> /\ Done
    /\ Len(reqs) = 1 /\ IsCreate(reqs[1]) /\ Answered2xx(1)
    /\ result.kind = "returned"
    /\ hadContent /\ file.committed = <<>>

\* C4: the requests of a write with non-empty content are, in this order,
\* the create, one append at position 0 whose body is all the bytes to
\* store, and one flush; each is issued only after the one before it was
\* answered 2xx, none twice, and a call that ended with fewer than three
\* had its last request fail (or no token, or content atob rejects).
C4_WriteRequestOrder ==
    (IsWrite /\ ContentPresent(content))
        => /\ Len(reqs) <= 3
           /\ Len(reqs) >= 1 => IsCreate(reqs[1])
           /\ Len(reqs) >= 2 => /\ Answered2xx(1)
                                /\ IsAppend(reqs[2])
                                /\ reqs[2].position = 0
                                /\ reqs[2].body = WholeBytes
           /\ Len(reqs) >= 3 => Answered2xx(2) /\ IsFlush(reqs[3])
           /\ (Done /\ Len(reqs) < 3)
                  => \/ token = "failed"
                     \/ Len(reqs) >= 1 /\ ~Answered2xx(Len(reqs))
                     \/ op = "writeFileAsBase64" /\ ~Atob(content).ok

C4_Witness ==
    /\ op = "writeFileAsBase64" /\ Done /\ result.kind = "returned"
    /\ Len(original) = MaxBytes
    /\ Len(reqs) = 3 /\ \A i \in 1..3 : Answered2xx(i)
    /\ reqs[2].body = original

\* C5: the position of every flush request is the number of bytes in the
\* body of the append request before it, which is the number of bytes to
\* store: the decoded bytes of a binary write, the UTF-8 bytes of a text.
C5_FlushPositionIsByteCount ==
    \A i \in 1..Len(reqs) :
        IsFlush(reqs[i])
            => /\ i > 1
               /\ IsAppend(reqs[i - 1])
               /\ reqs[i].position = Len(reqs[i - 1].body)
               /\ reqs[i].position = Len(WholeBytes)

C5_Witness ==
    /\ op = "writeFileAsText" /\ Done
    /\ Len(reqs) = 3 /\ IsFlush(reqs[3]) /\ Answered2xx(3)
    /\ reqs[3].position > Len(content)
    /\ file.committed = Utf8Encode(content)

\* C6: when the append or the flush of a write fails after the create
\* succeeded, the failed request is the last request of the call (no
\* delete, no repeat), the call ends with an error, and the path holds the
\* file the create made, with no committed content.
C6_NoRollbackNoResume ==
    (IsWrite /\ \E i \in 2..Len(reqs) : ~Answered2xx(i))
        => /\ Done /\ result.kind = "threw"
           /\ Len(reqs) <= 3
           /\ \A i \in 1..(Len(reqs) - 1) : Answered2xx(i)
           /\ \A i \in 1..Len(reqs) : ~IsDelete(reqs[i])
           /\ file.exists /\ file.committed = <<>>

C6_Witness ==
    /\ op = "writeFileAsText" /\ Done /\ result.kind = "threw"
    /\ Len(reqs) = 3 /\ Answered2xx(2) /\ ~Answered2xx(3)
    /\ hadContent
    /\ file.exists /\ file.committed = <<>> /\ file.staged = Utf8Encode(content)

\* a readFileAsText / readFileAsBase64 call that ended after a 2xx response
ReadSucceeded(o) ==
    /\ op = o /\ Done
    /\ Len(reqs) = 1 /\ Answered2xx(1)

HasLoneSurrogate(s) ==
    \E i \in 1..Len(s) :
        \/ IsHighSurrogate(s[i]) /\ ~(i < Len(s) /\ IsLowSurrogate(s[i + 1]))
        \/ IsLowSurrogate(s[i]) /\ ~(i > 1 /\ IsHighSurrogate(s[i - 1]))

StartsWithByteOrderMark(s) == Len(s) >= 1 /\ s[1] = 65279

\* C7 as stated: a readFileAsText that succeeds after a writeFileAsText of
\* C whose requests all succeeded (no write or delete in between) returns C,
\* for every text C (here: every C without an unpaired surrogate).
C7_TextRoundTripEveryText ==
    (/\ ReadSucceeded("readFileAsText")
     /\ lastWrite.op = "writeFileAsText"
     /\ ~HasLoneSurrogate(lastWrite.content))
        => result.text = lastWrite.content

\* C7, amended: the same for every text C that has no unpaired surrogate
\* and does not start with U+FEFF, the empty text included, whatever the
\* path held before.
C7_TextRoundTrip ==
    (/\ ReadSucceeded("readFileAsText")
     /\ lastWrite.op = "writeFileAsText"
     /\ ~HasLoneSurrogate(lastWrite.content)
     /\ ~StartsWithByteOrderMark(lastWrite.content))
        => result = ReturnedText(lastWrite.content)

C7_Witness ==
    /\ ReadSucceeded("readFileAsText")
    /\ lastWrite.op = "writeFileAsText"
    /\ lastWrite.overwrote
    /\ lastWrite.content = <<233, 65279>>
    /\ result.text = lastWrite.content
    /\ Len(file.committed) > Len(lastWrite.content)

\* C8: after a writeFileAsBase64 of the base64 encoding of some bytes whose
\* requests all succeeded, what a readFileAsBase64 that succeeds returns
\* decodes (as base64) to those bytes.
C8_BinaryRoundTrip ==
    (ReadSucceeded("readFileAsBase64") /\ lastWrite.op = "writeFileAsBase64")
        => BufferFromBase64(result.text) = lastWrite.original

\* C9: readFileAsText, readFileAsBase64 and checkIfFileExists never end
\* with an error; a read that failed (no token, a rejected fetch, a status
\* outside 2xx) returns the empty string; checkIfFileExists returns true
\* exactly when the HEAD request was answered 200.
C9_ReadAndExistsNeverRaise ==
    /\ op \in ReadOps \cup {"checkIfFileExists"} => result.kind # "threw"
    /\ (op \in ReadOps /\ Done /\ (token = "failed" \/ ~Answered2xx(1)))
           => result = ReturnedText(<<>>)
    /\ (op = "checkIfFileExists" /\ Done)
           => /\ result.kind = "returned"
              /\ result.flag = (token = "ok" /\ Len(reqs) = 1 /\ reqs[1].status = 200)

C9_Witness ==
    /\ op = "checkIfFileExists" /\ Done
    /\ file.exists
    /\ Len(reqs) = 1 /\ reqs[1].method = "HEAD" /\ reqs[1].status = 204
    /\ result = ReturnedFlag(FALSE)

\* C10: a deleteFile call that has ended returned to its caller and issued
\* one DELETE request with recursive=true (none when no access token was
\* obtained), also when that request failed.
C10_DeleteNeverRaises ==
    op = "deleteFile"
        => /\ result.kind # "threw"
           /\ Len(reqs) <= 1
           /\ \A i \in 1..Len(reqs) : IsDelete(reqs[i])
           /\ Done => /\ result.kind = "returned"
                      /\ Len(reqs) = (IF token = "ok" THEN 1 ELSE 0)

C10_Witness ==
    /\ op = "deleteFile" /\ Done
    /\ Len(reqs) = 1 /\ IsDelete(reqs[1]) /\ reqs[1].status = 500
    /\ result.kind = "returned"
    /\ file.exists

(***************************************************************************)
(* The file tree of the OneLake item explorer (FileTree, documented in     *)
(* SandboxRelaxationFix.md) and the controller call that lists a           *)
(* shortcut's contents (SampleOneLakeItemExplorerController.ts).           *)
(*                                                                         *)
(* A path or a name is a string: a sequence of one-character strings, so   *)
(* that split, join, substring and concatenation act as in the code.       *)
(***************************************************************************)
\* longest top-level listing handed to the component
MaxEntries == 2
\* most list calls issued while the component is mounted
MaxCalls == 2

Slash == "/"

\* s.split('/')
RECURSIVE SplitFrom(_, _, _)
SplitFrom(s, i, cur) ==
    IF i > Len(s) THEN <<cur>>
    ELSE IF s[i] = Slash THEN <<cur>> \o SplitFrom(s, i + 1, <<>>)
    ELSE SplitFrom(s, i + 1, Append(cur, s[i]))

Split(s) == SplitFrom(s, 1, <<>>)

\* segments.join('/')
RECURSIVE Join(_)
Join(segments) ==
    IF Len(segments) = 0 THEN <<>>
    ELSE IF Len(segments) = 1 THEN segments[1]
    ELSE segments[1] \o <<Slash>> \o Join(Tail(segments))

\* s.substring(start), start counted from 0
Substring(s, start) == SubSeq(s, start + 1, Len(s))

\* path.split('/').filter(s => s)
Segments(path) == SelectSeq(Split(path), LAMBDA seg : Len(seg) > 0)

\* the first segment alone
ParentPathFirstSegment(segments) == segments[1]

\* segments.slice(0, -1).join('/')
ParentPath(segments) == Join(SubSeq(segments, 1, Len(segments) - 1))

\* a.localeCompare(b) for names over the letters of the model: -1, 0 or 1
LetterRank(c) ==
    CASE c = "a" -> 1 [] c = "b" -> 2 [] c = "c" -> 3 [] c = "f" -> 4 [] c = "n" -> 5
      [] c = "s" -> 6 [] c = "t" -> 7 [] OTHER -> 0

RECURSIVE LocaleCompareFrom(_, _, _)
LocaleCompareFrom(a, b, i) ==
    IF i > Len(a) /\ i > Len(b) THEN 0
    ELSE IF i > Len(a) THEN -1
    ELSE IF i > Len(b) THEN 1
    ELSE IF LetterRank(a[i]) < LetterRank(b[i]) THEN -1
    ELSE IF LetterRank(a[i]) > LetterRank(b[i]) THEN 1
    ELSE LocaleCompareFrom(a, b, i + 1)

LocaleCompare(a, b) == LocaleCompareFrom(a, b, 1)

\* the item whose Files folder is shown, and the directory getFiles lists
ItemId == <<"i">>
FilesFolder == <<"F", "i", "l", "e", "s">>
FilesDirectory == ItemId \o <<Slash>> \o FilesFolder \o <<Slash>>

\* one row of a listing as the endpoint returns it (OneLakeStoragePathMetadata)
PathMetadata(name, isDirectory, isShortcut) ==
    [name |-> name, isDirectory |-> isDirectory, isShortcut |-> isShortcut]

\* convertToFileMetadata(path, directory)
ConvertToFileMetadata(path, directory) ==
    LET pathName == path.name
        parts == Split(pathName)
        fileName == parts[Len(parts)]
        relativePath == IF Len(pathName) > Len(directory)
                        THEN Substring(pathName, Len(directory))
                        ELSE <<>>
    IN  [prefix |-> "Files", name |-> fileName, path |-> relativePath,
         isDirectory |-> path.isDirectory, isShortcut |-> path.isShortcut]

\* the directory getShortcutContents lists for a shortcut in the Files folder
ShortcutDirectory(shortcutPath) == ItemId \o <<Slash>> \o FilesFolder \o <<Slash>> \o shortcutPath

\* the mapping getShortcutContents applies to each returned row
ShortcutContentEntry(path, directory) ==
    LET pathName == path.name
        parts == Split(pathName)
        fileName == parts[Len(parts)]
        relativePath == IF Len(pathName) > Len(directory)
                        THEN Substring(pathName, Len(directory) + 1)
                        ELSE <<>>
    IN  [prefix |-> "Files", name |-> fileName, path |-> relativePath,
         isDirectory |-> path.isDirectory, isShortcut |-> path.isShortcut]

\* getShortcutContents, given the rows the list call returned
GetShortcutContents(shortcutPath, paths) ==
    LET directory == ShortcutDirectory(shortcutPath)
    IN  [k \in 1..Len(paths) |-> ShortcutContentEntry(paths[k], directory)]

(***************************************************************************)
(* buildFileTree.  The code builds TreeNode objects that the folders map,  *)
(* the root array and the children arrays share by reference; the model    *)
(* keeps them in a heap (a sequence of nodes, a node's children being      *)
(* indexes into it) and reads the tree off the heap when it is sorted.     *)
(***************************************************************************)
\* const root = []; const folders = new Map()
EmptyBuild == [nodes |-> <<>>, root |-> <<>>, folders |-> <<>>]

\* folders.get(path): the index of the node registered for path, 0 if none
RECURSIVE FoldersGet(_, _)
FoldersGet(folders, path) ==
    IF Len(folders) = 0 THEN 0
    ELSE IF folders[Len(folders)].key = path THEN folders[Len(folders)].node
    ELSE FoldersGet(SubSeq(folders, 1, Len(folders) - 1), path)

\* folders.set(path, node)
FoldersSet(folders, path, node) == Append(folders, [key |-> path, node |-> node])

\* addNode that leaves out an entry whose parent folder is not registered
AddNodeDroppingOrphans(b, metadata) ==
    LET node == Len(b.nodes) + 1
        nodes == Append(b.nodes, [metadata |-> metadata, children |-> <<>>])
        folders == IF metadata.isDirectory
                   THEN FoldersSet(b.folders, metadata.path, node)
                   ELSE b.folders
        segments == Segments(metadata.path)
        parent == IF Len(segments) > 1 THEN FoldersGet(folders, ParentPath(segments)) ELSE 0
    IN  IF parent # 0
        THEN [nodes |-> [nodes EXCEPT ![parent].children = Append(@, node)],
              root |-> b.root, folders |-> folders]
        ELSE IF Len(segments) > 1
        THEN [nodes |-> nodes, root |-> b.root, folders |-> folders]
        ELSE [nodes |-> nodes, root |-> Append(b.root, node), folders |-> folders]

\* addNode(metadata)
AddNode(b, metadata) ==
    LET node == Len(b.nodes) + 1
        nodes == Append(b.nodes, [metadata |-> metadata, children |-> <<>>])
        folders == IF metadata.isDirectory
                   THEN FoldersSet(b.folders, metadata.path, node)
                   ELSE b.folders
        segments == Segments(metadata.path)
        parent == IF Len(segments) > 1 THEN FoldersGet(folders, ParentPath(segments)) ELSE 0
    IN  IF parent # 0
        THEN [nodes |-> [nodes EXCEPT ![parent].children = Append(@, node)],
              root |-> b.root, folders |-> folders]
        ELSE [nodes |-> nodes, root |-> Append(b.root, node), folders |-> folders]

\* files.forEach(f => addNode(f)), from the i-th file on
RECURSIVE AddNodes(_, _, _)
AddNodes(b, files, i) ==
    IF i > Len(files) THEN b ELSE AddNodes(AddNode(b, files[i]), files, i + 1)

\* a first pass over every entry, folder or not
FirstPassUnfiltered(b, files) == AddNodes(b, files, 1)

\* first pass: files.filter(f => f.isDirectory).forEach(addNode)
FirstPass(b, files) == AddNodes(b, SelectSeq(files, LAMBDA f : f.isDirectory), 1)

\* second pass: files.filter(f => !f.isDirectory).forEach(addNode)
SecondPass(b, files) == AddNodes(b, SelectSeq(files, LAMBDA f : ~f.isDirectory), 1)

\* the path of a content item put right after the shortcut's path
AdjustedItemNoSeparator(contentItem, shortcutPath) ==
    [contentItem EXCEPT !.path = shortcutPath \o contentItem.path]

\* the path a shortcut's content item gets in the tree
AdjustedItem(contentItem, shortcutPath) ==
    [contentItem EXCEPT !.path = shortcutPath \o <<Slash>> \o contentItem.path]

\* shortcutNode.children = []; contents.forEach(... shortcutNode.children.push(childNode))
SpliceContents(b, shortcutNode, shortcutPath, contents) ==
    LET first == Len(b.nodes)
        childNodes == [k \in 1..Len(contents) |->
                          [metadata |-> AdjustedItem(contents[k], shortcutPath),
                           children |-> <<>>]]
        nodes == b.nodes \o childNodes
    IN  [b EXCEPT !.nodes = [nodes EXCEPT ![shortcutNode].children =
                                 [k \in 1..Len(contents) |-> first + k]]]

\* third pass: shortcutContents.forEach((contents, shortcutPath) => ...), from the i-th entry on
RECURSIVE ThirdPass(_, _, _, _)
ThirdPass(b, contentsMap, expanded, i) ==
    IF i > Len(contentsMap) THEN b
    ELSE LET shortcutPath == contentsMap[i].key
             shortcutNode == FoldersGet(b.folders, shortcutPath)
         IN  IF shortcutNode # 0 /\ shortcutPath \in expanded
             THEN ThirdPass(SpliceContents(b, shortcutNode, shortcutPath, contentsMap[i].value),
                            contentsMap, expanded, i + 1)
             ELSE ThirdPass(b, contentsMap, expanded, i + 1)

\* the comparator of sortNodes, by name only
CompareNodesByName(a, b) == LocaleCompare(a.name, b.name)

\* the comparator of sortNodes: folders first, then by name
CompareNodes(a, b) ==
    IF a.isDirectory # b.isDirectory
    THEN (IF a.isDirectory THEN -1 ELSE 1)
    ELSE LocaleCompare(a.name, b.name)

\* nodes.sort(compare) on a sequence of heap indexes: Array.prototype.sort is
\* stable, so a node goes after the nodes it does not come before
RECURSIVE InsertSorted(_, _, _)
InsertSorted(nodes, sorted, n) ==
    IF Len(sorted) = 0 THEN <<n>>
    ELSE IF CompareNodes(nodes[n].metadata, nodes[sorted[Len(sorted)]].metadata) < 0
    THEN Append(InsertSorted(nodes, SubSeq(sorted, 1, Len(sorted) - 1), n), sorted[Len(sorted)])
    ELSE Append(sorted, n)

RECURSIVE SortIndexes(_, _, _)
SortIndexes(nodes, ids, i) ==
    IF i = 0 THEN <<>>
    ELSE InsertSorted(nodes, SortIndexes(nodes, ids, i - 1), ids[i])

\* sortNodes(nodes): sorts the array and then the children of each of its
\* nodes; the result is the sorted forest as a value
RECURSIVE SortNodes(_, _)
SortNodes(nodes, ids) ==
    LET sorted == SortIndexes(nodes, ids, Len(ids))
    IN  [k \in 1..Len(sorted) |->
            [metadata |-> nodes[sorted[k]].metadata,
             children |-> IF Len(nodes[sorted[k]].children) > 0
                          THEN SortNodes(nodes, nodes[sorted[k]].children)
                          ELSE <<>>]]

\* buildFileTree(files) with the component's shortcutContents and expandedShortcuts
BuildFileTree(files, contentsMap, expanded) ==
    LET b == ThirdPass(SecondPass(FirstPass(EmptyBuild, files), files),
                       contentsMap, expanded, 1)
    IN  SortNodes(b.nodes, b.root)

(***************************************************************************)
(* Inputs of the file tree: the listings the parent may hand over and the  *)
(* rows a list call may return.                                            *)
(***************************************************************************)
\* the rows a recursive listing of the Files folder may hold: a folder with
\* a subfolder and a file, and a shortcut with a shortcut listed below it
ItemRows ==
    { PathMetadata(FilesDirectory \o <<"a">>, TRUE, FALSE),
      PathMetadata(FilesDirectory \o <<"a", Slash, "b">>, TRUE, FALSE),
      PathMetadata(FilesDirectory \o <<"a", Slash, "f">>, FALSE, FALSE),
      PathMetadata(FilesDirectory \o <<"s">>, TRUE, TRUE),
      PathMetadata(FilesDirectory \o <<"s", Slash, "t">>, TRUE, TRUE) }

\* getFiles: every returned row converted
FileEntries == { ConvertToFileMetadata(row, FilesDirectory) : row \in ItemRows }

\* the sequences without repetition of at most n elements of S
RECURSIVE DistinctSeqs(_, _)
DistinctSeqs(S, n) ==
    IF n = 0 THEN {<<>>}
    ELSE LET shorter == DistinctSeqs(S, n - 1)
         IN  shorter \cup
             UNION { { Append(q, e) : e \in { e \in S : \A k \in 1..Len(q) : q[k] # e } } :
                     q \in { q \in shorter : Len(q) = n - 1 } }

\* the rows of a listing of a folder a with a subfolder b holding the file
\* c.txt, and a file d.txt beside a
DotTxt == <<".", "t", "x", "t">>
NestedRows ==
    << PathMetadata(FilesDirectory \o <<"a">>, TRUE, FALSE),
       PathMetadata(FilesDirectory \o <<"a", Slash, "b">>, TRUE, FALSE),
       PathMetadata(FilesDirectory \o <<"a", Slash, "b", Slash, "c">> \o DotTxt, FALSE, FALSE),
       PathMetadata(FilesDirectory \o <<"d">> \o DotTxt, FALSE, FALSE) >>

\* getFiles on those rows
NestedListing ==
    [k \in 1..Len(NestedRows) |-> ConvertToFileMetadata(NestedRows[k], FilesDirectory)]

\* the listings: no path twice, in every order, and the nested listing
Listings == DistinctSeqs(FileEntries, MaxEntries) \cup {NestedListing}

\* what a listing of a shortcut's directory may return, relative to it:
\* nothing, or a file and a nested shortcut
ShortcutRows(directory) ==
    { <<>>,
      << PathMetadata(directory \o <<Slash, "c">>, FALSE, FALSE),
         PathMetadata(directory \o <<Slash, "n">>, TRUE, TRUE) >> }

(***************************************************************************)
(* The component.                                                          *)
(***************************************************************************)
\* shortcutContents.has(path)
MapHas(map, path) == \E k \in 1..Len(map) : map[k].key = path

\* shortcutContents.get(path), for a path the map has
MapGet(map, path) == map[CHOOSE k \in 1..Len(map) : map[k].key = path].value

\* new Map(prev).set(path, contents): a key keeps its place
MapSet(map, path, contents) ==
    IF MapHas(map, path)
    THEN [k \in 1..Len(map) |-> IF map[k].key = path
                                THEN [key |-> path, value |-> contents]
                                ELSE map[k]]
    ELSE Append(map, [key |-> path, value |-> contents])

\* the metadata of every node of a forest
RECURSIVE NodesOf(_)
NodesOf(forest) ==
    UNION { {forest[k].metadata} \cup NodesOf(forest[k].children) : k \in 1..Len(forest) }

\* the component is mounted with a listing: the useState initial values
Mount(files) ==
    /\ allFilesInItem = files
    /\ expandedShortcuts = {}
    /\ shortcutContents = <<>>
    /\ loadingShortcuts = {}
    /\ inFlight = EmptyBag
    /\ listCalls = EmptyBag
    /\ event = NoEvent

FileTreeInit == StorageInit /\ OthersIdle /\ \E files \in Listings : Mount(files)

\* const fileTree = buildFileTree(allFilesInOneLake || []): what every render
\* computes from the listing and the component's state
fileTree == BuildFileTree(allFilesInItem, shortcutContents, expandedShortcuts)

\* the same after a step: what the render that follows the step computes
fileTreeAfter == BuildFileTree(allFilesInItem', shortcutContents', expandedShortcuts')

\* the condition of the folder item's onClick, without the expanded check
OnClickGuardShortcutOnly(metadata) == metadata.isShortcut

\* the condition of the folder item's onClick
OnClickGuard(metadata) ==
    metadata.isShortcut /\ metadata.path \notin expandedShortcuts

\* loadShortcutContents up to its await: the path is marked loading and the
\* list call is issued
LoadShortcutContentsStart(shortcutPath) ==
    /\ BagCardinality(listCalls) < MaxCalls
    /\ loadingShortcuts' = loadingShortcuts \cup {shortcutPath}
    /\ inFlight' = inFlight (+) SetToBag({shortcutPath})
    /\ listCalls' = listCalls (+) SetToBag({shortcutPath})
    /\ event' = [kind |-> "click", path |-> shortcutPath, outcome |-> "issued",
                 contents |-> <<>>]
    /\ UNCHANGED <<allFilesInItem, expandedShortcuts, shortcutContents>>

\* the user clicks the folder item of a shortcut
OnClick(metadata) ==
    /\ IF OnClickGuard(metadata)
       THEN LoadShortcutContentsStart(metadata.path)
       ELSE /\ event' = [kind |-> "click", path |-> metadata.path, outcome |-> "ignored",
                         contents |-> <<>>]
            /\ UNCHANGED <<allFilesInItem, expandedShortcuts, shortcutContents,
                           loadingShortcuts, inFlight, listCalls>>
    /\ UNCHANGED <<storageVars, laterVars>>

Click ==
    \E metadata \in { m \in NodesOf(fileTree) : m.isDirectory /\ m.isShortcut } :
        OnClick(metadata)

\* how loadShortcutContents ends for its caller when the list call failed
LoadShortcutContentsCatch == "returned"

\* the list call of a loadShortcutContents call returns its rows
ListReturns(shortcutPath, paths) ==
    /\ BagIn(shortcutPath, inFlight)
    /\ LET contents == GetShortcutContents(shortcutPath, paths)
       IN  /\ shortcutContents' = MapSet(shortcutContents, shortcutPath, contents)
           /\ event' = [kind |-> "loaded", path |-> shortcutPath, outcome |-> "returned",
                        contents |-> contents]
    /\ expandedShortcuts' = expandedShortcuts \cup {shortcutPath}
    /\ loadingShortcuts' = loadingShortcuts \ {shortcutPath}
    /\ inFlight' = inFlight (-) SetToBag({shortcutPath})
    /\ UNCHANGED <<allFilesInItem, listCalls, storageVars, laterVars>>

\* the list call of a loadShortcutContents call fails: no token, a rejected
\* fetch, a status that is not ok
ListFails(shortcutPath) ==
    /\ BagIn(shortcutPath, inFlight)
    /\ loadingShortcuts' = loadingShortcuts \ {shortcutPath}
    /\ inFlight' = inFlight (-) SetToBag({shortcutPath})
    /\ event' = [kind |-> "failed", path |-> shortcutPath,
                 outcome |-> LoadShortcutContentsCatch, contents |-> <<>>]
    /\ UNCHANGED <<allFilesInItem, expandedShortcuts, shortcutContents, listCalls, storageVars, laterVars>>

ListCompletes ==
    \E shortcutPath \in BagToSet(inFlight) :
        \/ \E paths \in ShortcutRows(ShortcutDirectory(shortcutPath)) :
               ListReturns(shortcutPath, paths)
        \/ ListFails(shortcutPath)

\* the parent hands over a new listing; the component keeps its state
Rebuild(files) ==
    /\ files # allFilesInItem
    /\ allFilesInItem' = files
    /\ event' = [kind |-> "rebuild", path |-> <<>>, outcome |-> "none", contents |-> <<>>]
    /\ UNCHANGED <<expandedShortcuts, shortcutContents, loadingShortcuts, inFlight,
                   listCalls, storageVars, laterVars>>

\* an explicit refresh: the rendering session ends and a new one starts on
\* the same listing, once no expansion is in flight
Refresh ==
    /\ BagCardinality(inFlight) = 0
    /\ BagCardinality(listCalls) > 0
    /\ expandedShortcuts' = {}
    /\ shortcutContents' = <<>>
    /\ loadingShortcuts' = {}
    /\ listCalls' = EmptyBag
    /\ event' = [kind |-> "refresh", path |-> <<>>, outcome |-> "none", contents |-> <<>>]
    /\ UNCHANGED <<allFilesInItem, inFlight, storageVars, laterVars>>

FileTreeNext ==
    \/ Click
    \/ ListCompletes
    \/ \E files \in Listings : Rebuild(files)
    \/ Refresh

FileTreeSpec == FileTreeInit /\ [][FileTreeNext]_vars

(***************************************************************************)
(* Properties of the file tree.                                            *)
(***************************************************************************)
\* the expansion state the component shows for a shortcut path
IsLoading(path) == path \in loadingShortcuts
IsExpanded(path) == path \in expandedShortcuts
IsCollapsed(path) == ~IsLoading(path) /\ ~IsExpanded(path)

\* the nodes of a forest, as subtrees
RECURSIVE SubtreesOf(_)
SubtreesOf(forest) ==
    UNION { {forest[k]} \cup SubtreesOf(forest[k].children) : k \in 1..Len(forest) }

\* the nodes of a forest that are shortcut folders
ShortcutNodes(forest) ==
    { n \in SubtreesOf(forest) : n.metadata.isDirectory /\ n.metadata.isShortcut }

\* the list calls in flight for a path
InFlightFor(path) == CopiesIn(path, inFlight)

\* C11: at any time at most one list call per shortcut path is in flight:
\* an expand request for a node that is Loading issues no further list call.
C11_OneListCallInFlight ==
    \A path \in BagToSet(inFlight) : InFlightFor(path) <= 1

\* the step is a click on the folder item of a shortcut
ClickStep == event'.kind = "click"
\* the step is the return of a list call with its rows, or its failure
LoadedStep == event'.kind = "loaded"
FailedStep == event'.kind = "failed"
\* the step is an explicit refresh: the only invalidation of the cache
RefreshStep == event'.kind = "refresh"

\* C12: two expand requests for a shortcut in sequence issue one list call:
\* the request for a node that is not Expanded issues exactly one, its
\* successful completion leaves the node Expanded, the node stays Expanded
\* while nothing is invalidated, and a request for an Expanded node issues
\* no list call and changes neither the tree nor the cache.
C12_SecondExpandIssuesNoCall ==
    [][ /\ ClickStep /\ ~IsExpanded(event'.path) =>
               /\ CopiesIn(event'.path, listCalls') = CopiesIn(event'.path, listCalls) + 1
               /\ BagCardinality(listCalls') = BagCardinality(listCalls) + 1
        /\ LoadedStep => event'.path \in expandedShortcuts'
        /\ ~RefreshStep => expandedShortcuts \subseteq expandedShortcuts'
        /\ ClickStep /\ IsExpanded(event'.path) =>
               /\ event'.outcome = "ignored"
               /\ UNCHANGED <<listCalls, inFlight, shortcutContents, expandedShortcuts,
                              loadingShortcuts>>
               /\ fileTreeAfter = fileTree
      ]_vars

\* a second request was made for a shortcut expanded by the only list call
\* issued for it, which returned rows, and was ignored
C12_Witness ==
    /\ event.kind = "click"
    /\ event.outcome = "ignored"
    /\ IsExpanded(event.path)
    /\ CopiesIn(event.path, listCalls) = 1
    /\ MapHas(shortcutContents, event.path)
    /\ Len(MapGet(shortcutContents, event.path)) > 0
    /\ \E n \in ShortcutNodes(fileTree) :
           n.metadata.path = event.path /\ Len(n.children) > 0

\* the children of the nodes a forest has for a path (no node: none)
ChildrenAt(forest, path) ==
    { n.children : n \in { n \in SubtreesOf(forest) : n.metadata.path = path } }

\* what the cache holds for a path (no entry: none)
CacheEntry(map, path) ==
    { map[k].value : k \in { k \in 1..Len(map) : map[k].key = path } }

\* C13: when the list call of an expansion fails the node ends Collapsed,
\* neither Loading nor Expanded, with the children and the cache entry it
\* had; and a node leaves Loading when its list call has returned or failed.
C13_FailureLeavesCollapsed ==
    [][ /\ FailedStep =>
               /\ event'.path \notin loadingShortcuts'
               /\ event'.path \notin expandedShortcuts'
               /\ CacheEntry(shortcutContents', event'.path)
                      = CacheEntry(shortcutContents, event'.path)
               /\ ChildrenAt(fileTreeAfter, event'.path) = ChildrenAt(fileTree, event'.path)
        /\ LoadedStep \/ FailedStep => event'.path \notin loadingShortcuts'
      ]_vars

\* C14: when the list call of an expansion fails, the expand call ends with
\* that error for its caller.
C14_FailureReachesCaller ==
    event.kind = "failed" => event.outcome = "threw"

\* children in the order of the tree: folders before files and, within the
\* folders and within the files, names in locale order
Ordered(children) ==
    \A i, j \in 1..Len(children) :
        i < j =>
            /\ ~(~children[i].metadata.isDirectory /\ children[j].metadata.isDirectory)
            /\ children[i].metadata.isDirectory = children[j].metadata.isDirectory =>
                   LocaleCompare(children[i].metadata.name, children[j].metadata.name) <= 0

\* children are the entries a list call returned for the shortcut at path:
\* one childless node per entry, its path re-anchored below the shortcut, in
\* the order of the tree
HoldsContents(children, path, contents) ==
    /\ Len(children) = Len(contents)
    /\ \A k \in 1..Len(contents) :
           \E c \in 1..Len(children) :
               /\ children[c].metadata =
                      [contents[k] EXCEPT !.path = path \o <<Slash>> \o contents[k].path]
               /\ children[c].children = <<>>
    /\ \A c, d \in 1..Len(children) :
           c # d => children[c].metadata # children[d].metadata
    /\ Ordered(children)

\* the paths with an expansion under way or done, other than path
OtherExpansions(path) ==
    (BagToSet(inFlight) \cup loadingShortcuts \cup expandedShortcuts) \ {path}

\* C15: expansions of two different shortcut nodes in flight together: when
\* one returns its rows while the other is in flight its node is Expanded and
\* holds the children fetched for it, and no completion changes the children,
\* the cache entry, the Loading state or the Expanded state of another node.
C15_ExpansionsAreIndependent ==
    [][ /\ LoadedStep /\ BagToSet(inFlight) \ {event'.path} # {} =>
               /\ event'.path \in expandedShortcuts'
               /\ \A children \in ChildrenAt(fileTreeAfter, event'.path) :
                      HoldsContents(children, event'.path, event'.contents)
        /\ LoadedStep \/ FailedStep =>
               \A other \in OtherExpansions(event'.path) :
                   /\ other \in loadingShortcuts' <=> other \in loadingShortcuts
                   /\ other \in expandedShortcuts' <=> other \in expandedShortcuts
                   /\ CacheEntry(shortcutContents', other) = CacheEntry(shortcutContents, other)
                   /\ ChildrenAt(fileTreeAfter, other) = ChildrenAt(fileTree, other)
      ]_vars

\* C16: after the list call of an expansion of shortcut S returned the entries
\* E, the cache maps S to E, S is Expanded, and the children of S's node are
\* one childless node per entry of E, its path S's path + '/' + the entry's
\* relative path, folders first and then by name.
C16_ExpansionSplicesEntries ==
    event.kind = "loaded" =>
        /\ CacheEntry(shortcutContents, event.path) = {event.contents}
        /\ IsExpanded(event.path)
        /\ \A children \in ChildrenAt(fileTree, event.path) :
               HoldsContents(children, event.path, event.contents)

\* C17: in every tree a shortcut node that is not Expanded has no children,
\* whatever the top-level listing holds.
C17_UnexpandedShortcutHasNoChildren ==
    \A n \in ShortcutNodes(fileTree) :
        ~IsExpanded(n.metadata.path) => n.children = <<>>

\* the step is a rebuild of the tree from a new top-level listing
RebuildStep == event'.kind = "rebuild"

\* the paths of the directory entries of a listing
DirectoryPaths(files) ==
    { files[k].path : k \in { k \in 1..Len(files) : files[k].isDirectory } }

\* the paths the cache has an entry for
CachedPaths(map) == { map[k].key : k \in 1..Len(map) }

\* C18: the cache is invalidated by an explicit refresh only: an entry stays,
\* with the rows last fetched for its path, in every step that is no refresh;
\* a rebuild from a new listing keeps the children of every expanded shortcut
\* that the new listing still holds; and a refresh leaves every shortcut
\* Collapsed with no entry, so that the next click on it issues a list call.
C18_CacheInvalidatedByRefreshOnly ==
    [][ /\ ~RefreshStep =>
               \A path \in CachedPaths(shortcutContents) :
                   /\ path \in CachedPaths(shortcutContents')
                   /\ ~(LoadedStep /\ event'.path = path) =>
                          CacheEntry(shortcutContents', path) = CacheEntry(shortcutContents, path)
        /\ RebuildStep =>
               \A path \in expandedShortcuts \cap DirectoryPaths(allFilesInItem') :
                   ChildrenAt(fileTree, path) # {} =>
                       ChildrenAt(fileTreeAfter, path) = ChildrenAt(fileTree, path)
        /\ RefreshStep =>
               /\ shortcutContents' = <<>>
               /\ \A n \in ShortcutNodes(fileTreeAfter) :
                      /\ n.metadata.path \notin loadingShortcuts'
                      /\ n.metadata.path \notin expandedShortcuts'
        /\ ClickStep /\ IsCollapsed(event'.path) =>
               CopiesIn(event'.path, listCalls') = CopiesIn(event'.path, listCalls) + 1
      ]_vars

\* the listing holds a directory entry for the parent path of the entry
HasListedParent(files, metadata) ==
    /\ Len(Segments(metadata.path)) > 1
    /\ ParentPath(Segments(metadata.path)) \in DirectoryPaths(files)

\* the forest has a node for the entry among the children of a node for its
\* parent path
AttachedToParent(forest, metadata) ==
    \E n \in SubtreesOf(forest) :
        /\ n.metadata.path = ParentPath(Segments(metadata.path))
        /\ \E c \in 1..Len(n.children) : n.children[c].metadata = metadata

\* the forest has a node for the entry at its root
AtRoot(forest, metadata) ==
    \E k \in 1..Len(forest) : forest[k].metadata = metadata

\* the tree built from the listing alone
ListingTree == BuildFileTree(allFilesInItem, <<>>, {})

\* C19: in the tree built from a listing, in every order of its entries, an
\* entry of more than one segment whose parent path is the path of a directory
\* entry of the listing is a child of that directory's node and not at the
\* root.
C19_EntryAttachedToListedParent ==
    \A k \in 1..Len(allFilesInItem) :
        HasListedParent(allFilesInItem, allFilesInItem[k]) =>
            /\ AttachedToParent(ListingTree, allFilesInItem[k])
            /\ ~AtRoot(ListingTree, allFilesInItem[k])

\* C20: in every tree, after a build and after a splice of shortcut
\* contents, the root and the children of every node have all folders before
\* all files and, within the folders and within the files, names in order.
C20_ChildrenAreOrdered ==
    /\ Ordered(fileTree)
    /\ \A n \in SubtreesOf(fileTree) : Ordered(n.children)

\* the metadata of a sequence of nodes, in their order
MetadataOf(nodes) == [k \in 1..Len(nodes) |-> nodes[k].metadata]

\* a splice has just put a folder before a file that its list call returned
\* first, below a shortcut of a listing that names a file before the folder
\* the tree shows first
C20_Witness ==
    /\ event.kind = "loaded"
    /\ Len(event.contents) = 2
    /\ ~event.contents[1].isDirectory
    /\ event.contents[2].isDirectory
    /\ \E n \in ShortcutNodes(fileTree) :
           /\ n.metadata.path = event.path
           /\ Len(n.children) = 2
           /\ n.children[1].metadata.isDirectory
           /\ ~n.children[2].metadata.isDirectory
    /\ Len(allFilesInItem) = 2
    /\ ~allFilesInItem[1].isDirectory
    /\ MetadataOf(fileTree) = <<allFilesInItem[2], allFilesInItem[1]>>

\* a node of a forest
Node(metadata, children) == [metadata |-> metadata, children |-> children]

\* the forest of the nested listing: a (holding b, holding c.txt) and d.txt
NestedForest ==
    << Node(NestedListing[1],
            << Node(NestedListing[2], << Node(NestedListing[3], <<>>) >>) >>),
       Node(NestedListing[4], <<>>) >>

IsOrphan(files, metadata) ==
    /\ Len(Segments(metadata.path)) > 1
    /\ ParentPath(Segments(metadata.path)) \notin DirectoryPaths(files)

\* the nodes a forest has for an entry, as positions: 1 per node
RECURSIVE CountNodes(_, _)
CountNodes(forest, metadata) ==
    IF Len(forest) = 0 THEN 0
    ELSE (IF forest[1].metadata = metadata THEN 1 ELSE 0)
         + CountNodes(forest[1].children, metadata)
         + CountNodes(Tail(forest), metadata)

\* C22: an entry of more than one segment whose parent path is the path of
\* no directory entry of the listing is at the root of the tree built from
\* the listing, once and nowhere else: it is not dropped.
C22_OrphanAtRoot ==
    \A k \in 1..Len(allFilesInItem) :
        IsOrphan(allFilesInItem, allFilesInItem[k]) =>
            /\ AtRoot(ListingTree, allFilesInItem[k])
            /\ CountNodes(ListingTree, allFilesInItem[k]) = 1

\* a listing holds an orphan file and an orphan folder, both at the root
C22_Witness ==
    /\ Len(allFilesInItem) = 2
    /\ \A k \in 1..2 : IsOrphan(allFilesInItem, allFilesInItem[k])
    /\ \E k \in 1..2 : allFilesInItem[k].isDirectory
    /\ \E k \in 1..2 : ~allFilesInItem[k].isDirectory
    /\ Len(ListingTree) = 2

\* path is prefix, one separator, and a rest that does not start with one
StartsWithFolder(path, prefix) ==
    /\ Len(path) > Len(prefix) + 1
    /\ SubSeq(path, 1, Len(prefix)) = prefix
    /\ path[Len(prefix) + 1] = Slash
    /\ path[Len(prefix) + 2] # Slash

\* C23: in every tree, built from the listing and from spliced shortcut
\* contents, the path of every child of a node starts with the path of the
\* node followed by a single '/'.
C23_ChildPathExtendsParentPath ==
    \A n \in SubtreesOf(fileTree) :
        \A c \in 1..Len(n.children) :
            StartsWithFolder(n.children[c].metadata.path, n.metadata.path)

\* the tree holds, at its root, a shortcut with the two children a list call
\* returned for it, one of them a folder, beside an orphan of two segments
C23_Witness ==
    /\ Len(fileTree) = 2
    /\ \E k \in 1..2 : Len(Segments(fileTree[k].metadata.path)) = 2
    /\ \E n \in ShortcutNodes(fileTree) :
           /\ IsExpanded(n.metadata.path)
           /\ Len(n.children) = 2
           /\ HoldsContents(n.children, n.metadata.path,
                            MapGet(shortcutContents, n.metadata.path))

\* the number of nodes of a forest
RECURSIVE ForestSize(_)
ForestSize(forest) ==
    IF Len(forest) = 0 THEN 0
    ELSE 1 + ForestSize(forest[1].children) + ForestSize(Tail(forest))

\* C28: the tree built from a listing with no shortcut expanded has exactly
\* one node for every entry of the listing, at the root or among the children
\* of one folder node, and no node besides.
C28_NodeConservation ==
    /\ \A k \in 1..Len(allFilesInItem) : CountNodes(ListingTree, allFilesInItem[k]) = 1
    /\ NodesOf(ListingTree) = { allFilesInItem[k] : k \in 1..Len(allFilesInItem) }
    /\ ForestSize(ListingTree) = Len(allFilesInItem)

\* a listing of folders and files on three levels was built, some of its
\* nodes at the root and some below
C28_Witness ==
    /\ Len(allFilesInItem) = 4
    /\ \E k \in 1..4 : Len(Segments(allFilesInItem[k].path)) = 3
    /\ Len(ListingTree) = 2
    /\ ForestSize(ListingTree) = 4

\* C29: in every state every expanded shortcut path has an entry in the cache,
\* and an expanded shortcut that the listing holds is shown with exactly the
\* cached entries of its path as its children: its node holds them, and the
\* node is there when there are entries to show.
C29_ExpandedShowsCachedEntries ==
    /\ \A path \in expandedShortcuts : MapHas(shortcutContents, path)
    /\ \A path \in expandedShortcuts \cap DirectoryPaths(allFilesInItem) :
           /\ \A children \in ChildrenAt(fileTree, path) :
                  HoldsContents(children, path, MapGet(shortcutContents, path))
           /\ Len(MapGet(shortcutContents, path)) > 0 => ChildrenAt(fileTree, path) # {}

(***************************************************************************)
(* Two callers of writeFileAsText on the same path.  Each call is the      *)
(* sequence of the storage client above: token, create, and for a content  *)
(* that is not empty an append at position 0 and a flush at the byte       *)
(* length; the calls share nothing but the file at the endpoint, and the   *)
(* awaits of one call let the requests of the other run in between.        *)
(***************************************************************************)
\* the texts a writer writes: empty, one byte, and two texts of two bytes
WriterTexts == {<<>>, <<65>>, <<233>>, <<65, 65>>}

\* the writer is between the start and the end of its call
Writing(w) == writers[w].pc \in {"begin", "append", "flush"}

\* writer w calls writeFileAsText(filePath, c)
WriterInvoke(w, c) ==
    /\ writers[w].pc = "idle"
    /\ LET racing == \E v \in Writers \ {w} : Writing(v)
       IN  writers' = [v \in Writers |->
                          IF v = w
                          THEN [NoWriter EXCEPT !.pc = "begin", !.content = c,
                                                !.overlapped = racing]
                          ELSE IF Writing(v) THEN [writers[v] EXCEPT !.overlapped = TRUE]
                          ELSE writers[v]]
    /\ UNCHANGED <<storageVars, treeVars, lro, consent>>

\* the call of writer w takes its next step and is then as the record next
WriterStep(w, next, f) ==
    /\ writers' = [writers EXCEPT ![w] =
                       IF next.pc = "done" THEN [next EXCEPT !.committedAtEnd = f.committed]
                       ELSE next]
    /\ file' = f
    /\ UNCHANGED <<op, content, original, pc, token, reqs, result, hadContent, lastWrite,
                   treeVars, lro, consent>>

\* writeFileAsText of writer w: the token, the create request, its catch
WriterCreate(w) ==
    /\ writers[w].pc = "begin"
    /\ \/ WriterStep(w, [writers[w] EXCEPT !.pc = "done", !.result = Threw], file)
       \/ \E r \in Fetch(CreateRequest, file) :
              LET sent == [writers[w] EXCEPT !.reqs = Append(@, Sent(CreateRequest, r.status))]
              IN  IF ~CreateResponseOk(r.status)
                  THEN WriterStep(w, [sent EXCEPT !.pc = "done",
                                                  !.result = WriteFileAsTextCreateCatch], r.file)
                  ELSE IF ContentPresent(writers[w].content)
                  THEN WriterStep(w, [sent EXCEPT !.pc = "append"], r.file)
                  ELSE WriterStep(w, [sent EXCEPT !.pc = "done", !.result = Returned], r.file)

\* appendToFile of writer w: the append request
WriterAppend(w) ==
    /\ writers[w].pc = "append"
    /\ LET req == AppendRequest(Utf8Encode(writers[w].content))
       IN  \E r \in Fetch(req, file) :
               LET sent == [writers[w] EXCEPT !.reqs = Append(@, Sent(req, r.status))]
               IN  IF ResponseOk(r.status)
                   THEN WriterStep(w, [sent EXCEPT !.pc = "flush"], r.file)
                   ELSE WriterStep(w, [sent EXCEPT !.pc = "done", !.result = Threw], r.file)

\* appendToFile of writer w: the flush request
WriterFlush(w) ==
    /\ writers[w].pc = "flush"
    /\ LET req == FlushRequest(TextContentLength(writers[w].content))
       IN  \E r \in Fetch(req, file) :
               LET sent == [writers[w] EXCEPT !.reqs = Append(@, Sent(req, r.status)),
                                              !.pc = "done"]
               IN  IF ResponseOk(r.status)
                   THEN WriterStep(w, [sent EXCEPT !.result = Returned], r.file)
                   ELSE WriterStep(w, [sent EXCEPT !.result = Threw], r.file)

WritersNext ==
    \E w \in Writers :
        \/ \E c \in WriterTexts : WriterInvoke(w, c)
        \/ WriterCreate(w)
        \/ WriterAppend(w)
        \/ WriterFlush(w)

WritersSpec == Init /\ [][WritersNext]_vars

\* the call of writer w returned and every request it issued was answered 2xx
WriterSucceeded(w) ==
    /\ writers[w].pc = "done"
    /\ writers[w].result.kind = "returned"
    /\ Len(writers[w].reqs) > 0
    /\ \A i \in 1..Len(writers[w].reqs) : ResponseOk(writers[w].reqs[i].status)

\* C24: a write that no other write of the path overlapped and that
\* succeeded leaves exactly its content committed when it returns; writes
\* that overlap give no such guarantee (the witness: a write that succeeded
\* in every request and returned with another content committed).
C24_LoneWriterCommitsItsContent ==
    \A w \in Writers :
        WriterSucceeded(w) /\ ~writers[w].overlapped =>
            writers[w].committedAtEnd = Utf8Encode(writers[w].content)

\* two writes overlapped, both succeeded in every request and returned, and
\* one of them returned while the committed content was not its own
C24_Witness ==
    /\ \A w \in Writers : WriterSucceeded(w) /\ writers[w].overlapped
    /\ \E w \in Writers : writers[w].committedAtEnd # Utf8Encode(writers[w].content)
    /\ \E w \in Writers : file.committed # Utf8Encode(writers[w].content)

(***************************************************************************)
(* The long running operations client                                      *)
(* (Workload/app/clients/LongRunningOperationsClient.ts): pollUntilComplete *)
(* and the two methods that wait on it.  Time is counted in ticks since    *)
(* the call started (Date.now() - startTime).                              *)
(***************************************************************************)
\* the longest timeoutMs a caller passes, in ticks
MaxTimeout == 3

\* the status of an operation, as a state query reports it
OperationStatuses == {"NotStarted", "Running", "Succeeded", "Failed"}

\* what a state query can report for an operation last seen with a status:
\* an operation proceeds from NotStarted to Running to Succeeded or Failed
\* and stays there
LaterStatuses(status) ==
    IF status = "NotStarted" THEN OperationStatuses
    ELSE IF status = "Running" THEN {"Running", "Succeeded", "Failed"}
    ELSE {status}

\* the ticks a state query takes, from the request to its answer
QueryTicks == {1, 2}

LroMethods == {"pollUntilComplete", "waitForSuccess", "waitForSuccessAndGetResult"}

\* a caller calls one of the three methods for an operation
LroInvoke(method, timeoutMs, pollingIntervalMs) ==
    /\ lro.pc \in {"idle", "done"}
    /\ lro' = [NoPoll EXCEPT !.method = method, !.pc = "loop", !.timeoutMs = timeoutMs,
                             !.pollingIntervalMs = pollingIntervalMs]
    /\ UNCHANGED <<storageVars, treeVars, writers, consent>>

\* the call ends for its caller
LroEnds(l, kind, status) ==
    [l EXCEPT !.pc = "done", !.outcome = [kind |-> kind, status |-> status]]

\* while (Date.now() - startTime < timeoutMs)
WithinTimeout(elapsed, timeoutMs) == elapsed < timeoutMs

\* a test that takes every status but NotStarted for the end of the operation
IsCompleteOnceStarted(status) == status # "NotStarted"

\* state.status === 'Succeeded' || state.status === 'Failed'
IsComplete(status) == status = "Succeeded" \/ status = "Failed"

\* a test that takes no final state for a failure
FinalStateFailedNever(status) == FALSE

\* finalState.status === 'Failed'
FinalStateFailed(status) == status = "Failed"

\* pollUntilComplete at the head of its loop: the state query is issued, or
\* the timeout error is thrown
PollLoop ==
    /\ lro.pc = "loop"
    /\ lro' = IF WithinTimeout(lro.elapsed, lro.timeoutMs)
              THEN [lro EXCEPT !.pc = "query",
                               !.queries = Append(@, [at |-> lro.elapsed, answer |-> "none"])]
              ELSE LroEnds(lro, "threw", "timeout")
    /\ UNCHANGED <<storageVars, treeVars, writers, consent>>

\* what the method does with the final state pollUntilComplete returned
AfterPoll(l, status) ==
    IF l.method = "pollUntilComplete" THEN LroEnds(l, "returned", status)
    ELSE IF FinalStateFailed(status) THEN LroEnds(l, "threw", "failed")
    ELSE IF l.method = "waitForSuccess" THEN LroEnds(l, "returned", status)
    ELSE [l EXCEPT !.pc = "result", !.resultRequests = @ + 1]

\* the state query is answered with a status, or fails
PollQueryReturns ==
    /\ lro.pc = "query"
    /\ \E ticks \in QueryTicks :
       \E answer \in LaterStatuses(lro.operation) \cup {"error"} :
           LET l == [lro EXCEPT !.elapsed = @ + ticks,
                                !.queries[Len(lro.queries)].answer = answer,
                                !.operation = IF answer = "error" THEN @ ELSE answer]
           IN  lro' = IF answer = "error" THEN LroEnds(l, "threw", "error")
                      ELSE IF IsComplete(answer) THEN AfterPoll(l, answer)
                      ELSE [l EXCEPT !.pc = "wait"]
    /\ UNCHANGED <<storageVars, treeVars, writers, consent>>

\* await new Promise(resolve => setTimeout(resolve, pollingIntervalMs))
PollWait ==
    /\ lro.pc = "wait"
    /\ lro' = [lro EXCEPT !.pc = "loop", !.elapsed = @ + lro.pollingIntervalMs]
    /\ UNCHANGED <<storageVars, treeVars, writers, consent>>

\* getOperationResult is answered with the result, or fails
ResultReturns ==
    /\ lro.pc = "result"
    /\ \E kind \in {"returned", "threw"} : lro' = LroEnds(lro, kind, "result")
    /\ UNCHANGED <<storageVars, treeVars, writers, consent>>

PollNext ==
    \/ \E method \in LroMethods, timeoutMs \in 0..MaxTimeout, pollingIntervalMs \in 0..2 :
           LroInvoke(method, timeoutMs, pollingIntervalMs)
    \/ PollLoop
    \/ PollQueryReturns
    \/ PollWait
    \/ ResultReturns

PollSpec == Init /\ [][PollNext]_vars

\* every await of a call settles: the state query and the result request
\* are answered or fail, the timer fires
PollFairSpec ==
    PollSpec /\ WF_vars(PollLoop) /\ WF_vars(PollQueryReturns) /\ WF_vars(PollWait)
             /\ WF_vars(ResultReturns)

\* the statuses of an operation that has ended
EndStatuses == {"Succeeded", "Failed"}

\* a call is under way; a call has ended for its caller
Polling == lro.pc \in {"loop", "query", "wait", "result"}
PollEnded == lro.pc = "done"

\* what holds of a call in every state
PollIsBounded ==
    /\ PollEnded => lro.outcome.kind \in {"returned", "threw"}
    /\ PollEnded /\ lro.method = "pollUntilComplete" =>
           /\ lro.outcome.kind = "returned" =>
                  /\ lro.outcome.status \in EndStatuses
                  /\ lro.queries[Len(lro.queries)].answer = lro.outcome.status
           /\ lro.outcome.kind = "threw" => lro.outcome.status \in {"timeout", "error"}
    /\ PollEnded /\ lro.outcome.status = "timeout" =>
           /\ lro.elapsed >= lro.timeoutMs
           /\ \A i \in 1..Len(lro.queries) : lro.queries[i].answer \notin EndStatuses \cup {"error"}
    /\ PollEnded /\ lro.outcome.status = "error" =>
           lro.queries[Len(lro.queries)].answer = "error"
    /\ \A i \in 1..Len(lro.queries) :
           /\ lro.queries[i].at < lro.timeoutMs
           /\ i < Len(lro.queries) => lro.queries[i].answer \notin EndStatuses \cup {"error", "none"}

\* C25: a call of pollUntilComplete returns a state only with the status
\* Succeeded or Failed that its last state query reported, or raises: the
\* timeout error when the elapsed time has reached timeoutMs, or the error of
\* a failed state query; no state query follows one that reported Succeeded
\* or Failed, none is issued at or after the timeout; and every call ends.
C25_PollNeverHangs ==
    []PollIsBounded /\ (Polling ~> PollEnded)

\* pollUntilComplete timed out after two state queries that found the
\* operation not ended
C25_Witness ==
    /\ lro.method = "pollUntilComplete"
    /\ PollEnded
    /\ lro.outcome = [kind |-> "threw", status |-> "timeout"]
    /\ Len(lro.queries) >= 2
    /\ lro.queries[Len(lro.queries)].answer = "Running"

\* the answer to the last state query of the call ("none": unanswered or none issued)
LastAnswer ==
    IF Len(lro.queries) = 0 THEN "none" ELSE lro.queries[Len(lro.queries)].answer

\* C27: the result of an operation is requested only by
\* waitForSuccessAndGetResult, once, after a state query of the call reported
\* Succeeded; a call whose polling ended with Failed, with the timeout or with
\* a failed query raises and requests no result; and waitForSuccess returns
\* a state only with the status Succeeded.
C27_ResultOnlyAfterSucceeded ==
    /\ lro.resultRequests > 0 =>
           /\ lro.method = "waitForSuccessAndGetResult"
           /\ lro.resultRequests = 1
           /\ LastAnswer = "Succeeded"
    /\ PollEnded /\ lro.method # "pollUntilComplete"
           /\ (LastAnswer \in {"Failed", "error"} \/ lro.outcome.status = "timeout") =>
               /\ lro.outcome.kind = "threw"
               /\ lro.resultRequests = 0
    /\ PollEnded /\ lro.method = "waitForSuccess" /\ lro.outcome.kind = "returned" =>
           /\ lro.outcome.status = "Succeeded"
           /\ LastAnswer = "Succeeded"

\* waitForSuccessAndGetResult returned the result it requested after its
\* third state query reported Succeeded
C27_Witness ==
    /\ lro.method = "waitForSuccessAndGetResult"
    /\ PollEnded
    /\ lro.outcome = [kind |-> "returned", status |-> "result"]
    /\ lro.resultRequests = 1
    /\ Len(lro.queries) = 3
    /\ LastAnswer = "Succeeded"

(***************************************************************************)
(* The sandbox relaxation service                                          *)
(* (Workload/app/services/SandboxRelaxationService.ts).  consentedScopes   *)
(* is the set of the scopes the object maps to true; a string of           *)
(* attributes or policies joined by a separator is the sequence of them.   *)
(***************************************************************************)
\* keyof FabricSandboxRelaxationScopes
Scopes == {"Fabric.Extend", "DOWNLOAD", "POP-UP", "FORMS"}

\* the configurations a caller passes to getIframeSandboxState
Configs == [mode : {"mandatory", "optional"}, requiredScopes : SUBSET Scopes]

\* a call of the service ended: the instance after it, with the call recorded
ServiceAfter(consentedScopes, isInitialized, call) ==
    /\ consent' = [consentedScopes |-> consentedScopes, isInitialized |-> isInitialized,
                   last |-> call]
    /\ UNCHANGED <<storageVars, treeVars, writers, lro>>

\* a guard that lets every call of initialize through
AlreadyInitializedNever(service) == FALSE

\* if (this.isInitialized) return
AlreadyInitialized(service) == service.isInitialized

\* initialize()
Initialize ==
    LET call == [NoCall EXCEPT !.op = "initialize"]
    IN  IF AlreadyInitialized(consent)
        THEN ServiceAfter(consent.consentedScopes, consent.isInitialized, call)
        ELSE ServiceAfter(Scopes, TRUE, call)

\* requestConsent(scopes): every scope asked for is set, true is returned
RequestConsent(scopes) ==
    ServiceAfter(consent.consentedScopes \cup scopes, consent.isInitialized,
                 [NoCall EXCEPT !.op = "requestConsent", !.scopes = scopes])

\* resetConsent()
ResetConsent ==
    ServiceAfter({}, consent.isInitialized, [NoCall EXCEPT !.op = "resetConsent"])

\* hasConsent(scopes): scopes.every(scope => this.consentedScopes[scope] === true)
HasConsent(consentedScopes, scopes) == \A scope \in scopes : scope \in consentedScopes

\* sandbox attributes with every capability, whatever is consented
BuildEverySandboxAttribute(consentedScopes) ==
    <<"allow-same-origin", "allow-scripts", "allow-forms", "allow-popups", "allow-downloads">>

\* buildOfficialSandboxAttributes()
BuildOfficialSandboxAttributes(consentedScopes) ==
    <<"allow-same-origin", "allow-scripts">>
        \o (IF "FORMS" \in consentedScopes THEN <<"allow-forms">> ELSE <<>>)
        \o (IF "POP-UP" \in consentedScopes THEN <<"allow-popups">> ELSE <<>>)
        \o (IF "DOWNLOAD" \in consentedScopes THEN <<"allow-downloads">> ELSE <<>>)

\* buildOfficialPermissionsPolicy()
BuildOfficialPermissionsPolicy(consentedScopes) ==
    (IF "DOWNLOAD" \in consentedScopes THEN <<"downloads 'self'">> ELSE <<>>)
        \o (IF "POP-UP" \in consentedScopes THEN <<"popups 'self'">> ELSE <<>>)

\* config.mode === 'mandatory' && !hasRequiredConsent
MandatoryBlocked(config, hasRequiredConsent) ==
    config.mode = "mandatory" /\ ~hasRequiredConsent

\* the IframeSandboxState getIframeSandboxState(config) returns
IframeSandboxState(consentedScopes, config) ==
    LET hasRequiredConsent == HasConsent(consentedScopes, config.requiredScopes)
    IN  IF MandatoryBlocked(config, hasRequiredConsent)
        THEN [sandboxRelaxed |-> FALSE, grantedScopes |-> {}, sandboxAttributes |-> <<>>,
              permissionsPolicy |-> <<>>]
        ELSE [sandboxRelaxed |-> hasRequiredConsent, grantedScopes |-> consentedScopes,
              sandboxAttributes |-> BuildOfficialSandboxAttributes(consentedScopes),
              permissionsPolicy |-> BuildOfficialPermissionsPolicy(consentedScopes)]

\* getIframeSandboxState(config)
GetIframeSandboxState(config) ==
    ServiceAfter(consent.consentedScopes, consent.isInitialized,
                 [op |-> "getIframeSandboxState", scopes |-> config.requiredScopes,
                  mode |-> config.mode,
                  returned |-> <<IframeSandboxState(consent.consentedScopes, config)>>])

ConsentNext ==
    \/ Initialize
    \/ \E scopes \in SUBSET Scopes : RequestConsent(scopes)
    \/ ResetConsent
    \/ \E config \in Configs : GetIframeSandboxState(config)

ConsentSpec == Init /\ [][ConsentNext]_vars

\* the elements of a sequence
Range(seq) == { seq[k] : k \in 1..Len(seq) }

\* the capability an attribute grants is named by a scope
ScopeOfAttribute ==
    [a \in {"allow-forms", "allow-popups", "allow-downloads"} |->
        IF a = "allow-forms" THEN "FORMS" ELSE IF a = "allow-popups" THEN "POP-UP"
        ELSE "DOWNLOAD"]

\* the state is the one of a blocked iframe
IsBlocked(state) ==
    /\ state.sandboxRelaxed = FALSE
    /\ state.sandboxAttributes = <<>>
    /\ state.permissionsPolicy = <<>>

\* C26: the state getIframeSandboxState returns, after any calls of
\* initialize, requestConsent and resetConsent, holds allow-forms,
\* allow-popups or allow-downloads only when FORMS, POP-UP or DOWNLOAD is
\* consented at that moment, and in mandatory mode with a required scope not
\* consented it is relaxed = false with no attributes and no policy.
C26_NoCapabilityWithoutConsent ==
    consent.last.op = "getIframeSandboxState" =>
        LET state == consent.last.returned[1]
        IN  /\ \A a \in DOMAIN ScopeOfAttribute :
                   a \in Range(state.sandboxAttributes) =>
                       ScopeOfAttribute[a] \in consent.consentedScopes
            /\ (/\ consent.last.mode = "mandatory"
                /\ \E scope \in consent.last.scopes : scope \notin consent.consentedScopes)
                   => IsBlocked(state)

\* after a reset and a request for two scopes, a state was returned with the
\* attribute of one and not of the other capabilities, in optional mode with
\* a required scope missing
C26_Witness ==
    /\ consent.last.op = "getIframeSandboxState"
    /\ consent.isInitialized
    /\ consent.consentedScopes = {"Fabric.Extend", "FORMS"}
    /\ consent.last.mode = "optional"
    /\ consent.last.scopes = {"Fabric.Extend", "FORMS", "DOWNLOAD"}
    /\ consent.last.returned[1].sandboxAttributes
           = <<"allow-same-origin", "allow-scripts", "allow-forms">>
    /\ consent.last.returned[1].sandboxRelaxed = FALSE

\* the step is a call of the service that changed the instance or the call
\* it recorded
ServiceStep(name) == consent' # consent /\ consent'.last.op = name

\* no list of scopes that is not empty has consent
NothingConsented(service) ==
    \A scopes \in (SUBSET Scopes) \ {{}} : ~HasConsent(service.consentedScopes, scopes)

\* C30: initialize() takes effect once per instance: on an instance that was
\* initialized it changes nothing, so after a resetConsent() it leaves the
\* consented scopes empty; resetConsent() empties the scopes and leaves the
\* instance initialized; an initialized instance stays initialized and gains
\* scopes by requestConsent only, so with the scopes empty no list of scopes
\* has consent and a mandatory configuration with required scopes is blocked.
C30_InitializeOnlyOnce ==
    [][ /\ consent.isInitialized => consent'.isInitialized
        /\ ServiceStep("initialize") /\ consent.isInitialized =>
               consent'.consentedScopes = consent.consentedScopes
        /\ ServiceStep("resetConsent") =>
               /\ consent'.consentedScopes = {}
               /\ consent'.isInitialized = consent.isInitialized
        /\ consent.isInitialized /\ ~ServiceStep("requestConsent") =>
               consent'.consentedScopes \subseteq consent.consentedScopes
        /\ consent'.consentedScopes = {} =>
               /\ NothingConsented(consent')
               /\ (/\ ServiceStep("getIframeSandboxState")
                   /\ consent'.last.mode = "mandatory"
                   /\ consent'.last.scopes # {}) => IsBlocked(consent'.last.returned[1])
      ]_vars

\* initialize() was called on an initialized instance after a reset: the
\* scopes are still empty
C30_Witness ==
    /\ consent.last.op = "initialize"
    /\ consent.isInitialized
    /\ consent.consentedScopes = {}

====
